---------------------------- MODULE Spec2Model ----------------------------
(***************************************************************************)
(* Graph storage library of learn_rust (src/src/graph/*.rs).               *)
(*                                                                         *)
(* Four storage types are modelled, each as one record-valued variable     *)
(* holding the fields of the Rust struct:                                  *)
(*   am   AdjacencyMatrix<T,W>      al   AdjacencyList<T,W>                *)
(*   ol   OrthogonalList<T,W>       aml  AdjacencyMultilist<T,W>           *)
(* Instances share no state, so a behaviour drives exactly one of them:    *)
(* `repr` names the instance the client constructed, the others stay as    *)
(* constructed and are never touched.                                      *)
(*                                                                         *)
(* breadth_first_search (src/src/graph/traversal.rs) is modelled step by   *)
(* step in `bfs`, the record of the call's locals; SpecBFS is the client   *)
(* that builds a matrix or a list and traverses it, Spec the client of the *)
(* storage operations, in which `bfs` stays idle.                          *)
(*                                                                         *)
(* The siblings of the graph library are modelled the same way: `sm` is    *)
(* the SymmetricMatrix (symmetric_matrix.rs), `uf` the vector of UnionFind *)
(* (src/src/union_find.rs), `paren` the locals of is_valid_parentheses     *)
(* (src/src/bin/stack_application.rs); each has a client of its own.       *)
(*                                                                         *)
(* Conventions: vertex and slot indices are zero-based as in the source,   *)
(* sequences are one-based, hence the "+ 1" on every access.  Option<X>    *)
(* is a sequence of length at most one: None is <<>>, Some(x) is <<x>>.    *)
(* A panic! ends the behaviour: `panicked` is set and the struct is left as *)
(* the aborted call left it.                                               *)
(***************************************************************************)
EXTENDS Integers, Sequences, FiniteSets, TLC

VARIABLES repr, am, al, ol, aml, panicked, bfs, sm, sm_input, uf, paren

vars == <<repr, am, al, ol, aml, panicked, bfs, sm, sm_input, uf, paren>>

-----------------------------------------------------------------------------
(* Bounds of the exploration *)

\* largest vertex count of AdjacencyMatrix / AdjacencyList (new(n)) and of OrthogonalList
MaxVertices == 2

\* largest vertex count of AdjacencyMultilist: without self-loops a chain needs
\* three vertices to hold an edge between two edges of another pair
MaxMultilistVertices == 3

\* largest arena length (number of add_edge calls) of OrthogonalList / AdjacencyMultilist
MaxArcs == 3

\* largest number of edges present at once in AdjacencyMatrix / AdjacencyList
MaxEdges == 3

\* largest vertex count and largest number of edges of a graph handed to
\* breadth_first_search
MaxBfsVertices == 3

MaxBfsEdges == 3

\* largest size of a SymmetricMatrix made with new
MaxSymSize == 3

\* largest number of rows of a vector handed to from_matrix; a row may be one
\* element longer
MaxSymRows == 2

\* largest size of a UnionFind
MaxUfSize == 5

\* largest number of characters of a string handed to is_valid_parentheses
MaxParenLen == 3

\* edge weights W and vertex payloads T handed to the operations
Weights == {10, 20}

Data == {"V"}

\* vertex indices handed to the operations; the last one is out of range for every graph
Indices == 0 .. MaxVertices

MultilistIndices == 0 .. MaxMultilistVertices

\* the multilist stores the weight and has no operation that reads it
MultilistWeights == {10}

\* the traversal reads no weight
TraversalWeights == {1}

\* the i32 values written into a SymmetricMatrix (new fills it with 0)
SymValues == {1, 2}

\* the characters of the strings handed to is_valid_parentheses: the six
\* brackets and one character that is none
Chars == {"(", ")", "[", "]", "{", "}", "a"}

-----------------------------------------------------------------------------
(* Option<X> *)

None == << >>

Some(x) == << x >>

is_some(o) == o # None

unwrap(o) == o[1]

OptWeights == {None} \cup {Some(w) : w \in Weights}

\* outcome of a call that may panic: the value it returns, or the abort
Ok(v) == [panic |-> FALSE, value |-> v]

Abort == [panic |-> TRUE, value |-> None]

-----------------------------------------------------------------------------
(* AdjacencyMatrix<T,W>  --  src/src/graph/adjacency_matrix.rs *)

AM_new(vertices) ==
    [ vertices    |-> vertices,
      edges       |-> 0,
      vertex_data |-> [i \in 1 .. vertices |-> None],
      matrix      |-> [i \in 1 .. vertices |-> [j \in 1 .. vertices |-> None]] ]

\* the new struct, or the struct as it was when the call panicked
AM_set_vertex_data(g, vertex, data) ==
    IF vertex >= g.vertices
    THEN [panic |-> TRUE, g |-> g]
    ELSE [panic |-> FALSE,
          g |-> [g EXCEPT !.vertex_data[vertex + 1] = Some(data)]]

AM_get_vertex_data(g, vertex) ==
    IF vertex >= g.vertices THEN Abort ELSE Ok(g.vertex_data[vertex + 1])

\* AM_add_edge counting every call that carries a weight, overwrites included
AM_add_edge_counts_overwrite(g, from, to, weight) ==
    IF from >= g.vertices \/ to >= g.vertices
    THEN [panic |-> TRUE, g |-> g]
    ELSE LET cell  == g.matrix[from + 1][to + 1]
             edges == IF is_some(weight) THEN g.edges + 1
                      ELSE IF is_some(cell) THEN g.edges - 1
                      ELSE g.edges
         IN  [panic |-> FALSE,
              g |-> [g EXCEPT !.edges = edges,
                              !.matrix[from + 1][to + 1] = weight]]

\* AM_add_edge decrementing for every None weight, edge present or not
AM_add_edge_none_always_decrements(g, from, to, weight) ==
    IF from >= g.vertices \/ to >= g.vertices
    THEN [panic |-> TRUE, g |-> g]
    ELSE LET cell  == g.matrix[from + 1][to + 1]
             edges == IF ~is_some(cell) /\ is_some(weight) THEN g.edges + 1
                      ELSE IF ~is_some(weight) THEN g.edges - 1
                      ELSE g.edges
         IN  [panic |-> FALSE,
              g |-> [g EXCEPT !.edges = edges,
                              !.matrix[from + 1][to + 1] = weight]]

AM_add_edge(g, from, to, weight) ==
    IF from >= g.vertices \/ to >= g.vertices
    THEN [panic |-> TRUE, g |-> g]
    ELSE LET cell  == g.matrix[from + 1][to + 1]
             edges == IF ~is_some(cell) /\ is_some(weight) THEN g.edges + 1
                      ELSE IF is_some(cell) /\ ~is_some(weight) THEN g.edges - 1
                      ELSE g.edges
         IN  [panic |-> FALSE,
              g |-> [g EXCEPT !.edges = edges,
                              !.matrix[from + 1][to + 1] = weight]]

AM_get_edge(g, from, to) ==
    IF from >= g.vertices \/ to >= g.vertices
    THEN Abort
    ELSE Ok(g.matrix[from + 1][to + 1])

\* AM_remove_edge clearing the transposed cell
AM_remove_edge_transposed(g, from, to) ==
    IF from >= g.vertices \/ to >= g.vertices
    THEN [panic |-> TRUE, g |-> g]
    ELSE LET cell  == g.matrix[from + 1][to + 1]
             edges == IF is_some(cell) THEN g.edges - 1 ELSE g.edges
         IN  [panic |-> FALSE,
              g |-> [g EXCEPT !.edges = edges,
                              !.matrix[to + 1][from + 1] = None]]

\* AM_remove_edge decrementing the counter whether or not the cell held an edge
AM_remove_edge_always_counts(g, from, to) ==
    IF from >= g.vertices \/ to >= g.vertices
    THEN [panic |-> TRUE, g |-> g]
    ELSE [panic |-> FALSE,
          g |-> [g EXCEPT !.edges = @ - 1,
                          !.matrix[from + 1][to + 1] = None]]

AM_remove_edge(g, from, to) ==
    IF from >= g.vertices \/ to >= g.vertices
    THEN [panic |-> TRUE, g |-> g]
    ELSE LET cell  == g.matrix[from + 1][to + 1]
             edges == IF is_some(cell) THEN g.edges - 1 ELSE g.edges
         IN  [panic |-> FALSE,
              g |-> [g EXCEPT !.edges = edges,
                              !.matrix[from + 1][to + 1] = None]]

\* the scan `for i in lo..self.vertices` of row `vertex`: the first column
\* from lo on that holds an edge
RECURSIVE AM_scan_row(_, _, _)
AM_scan_row(g, vertex, i) ==
    IF i >= g.vertices THEN None
    ELSE IF is_some(g.matrix[vertex + 1][i + 1]) THEN Some(i)
    ELSE AM_scan_row(g, vertex, i + 1)

\* AM_first_neighbor reading column `vertex` of the matrix instead of its row
AM_first_neighbor_transposed(g, vertex) ==
    IF vertex >= g.vertices THEN None
    ELSE LET hits == {i \in 0 .. g.vertices - 1 : is_some(g.matrix[i + 1][vertex + 1])}
         IN  IF hits = {} THEN None
             ELSE Some(CHOOSE i \in hits : \A j \in hits : i <= j)

AM_first_neighbor(g, vertex) ==
    IF vertex >= g.vertices THEN None
    ELSE AM_scan_row(g, vertex, 0)

\* AM_next_neighbor resuming the scan two columns after the current neighbor
AM_next_neighbor_skips_one(g, vertex, current_neighbor) ==
    IF vertex >= g.vertices \/ current_neighbor >= g.vertices THEN None
    ELSE AM_scan_row(g, vertex, current_neighbor + 2)

AM_next_neighbor(g, vertex, current_neighbor) ==
    IF vertex >= g.vertices \/ current_neighbor >= g.vertices THEN None
    ELSE AM_scan_row(g, vertex, current_neighbor + 1)

-----------------------------------------------------------------------------
(* AdjacencyList<T,W>  --  src/src/graph/adjacency_list.rs *)
(* an entry of adj[v] is the pair <<target, weight>> *)

AL_new(vertices) ==
    [ vertices    |-> vertices,
      edges       |-> 0,
      vertex_data |-> [i \in 1 .. vertices |-> None],
      adj         |-> [i \in 1 .. vertices |-> << >>] ]

AL_set_vertex_data(g, vertex, data) ==
    IF vertex >= g.vertices
    THEN [panic |-> TRUE, g |-> g]
    ELSE [panic |-> FALSE,
          g |-> [g EXCEPT !.vertex_data[vertex + 1] = Some(data)]]

AL_get_vertex_data(g, vertex) ==
    IF vertex >= g.vertices THEN Abort ELSE Ok(g.vertex_data[vertex + 1])

\* iter().position(|(v, _)| *v == to): the one-based place of the first entry
\* with that target, 0 when there is none
AL_position(list, to) ==
    LET hits == {k \in 1 .. Len(list) : list[k][1] = to}
    IN  IF hits = {} THEN 0 ELSE CHOOSE k \in hits : \A m \in hits : k <= m

\* Vec::remove(idx), idx one-based here
AL_vec_remove(list, k) ==
    [m \in 1 .. Len(list) - 1 |-> IF m < k THEN list[m] ELSE list[m + 1]]

\* AL_add_edge without the search for an existing entry: it always pushes
AL_add_edge_always_push(g, from, to, weight) ==
    IF from >= g.vertices \/ to >= g.vertices
    THEN [panic |-> TRUE, g |-> g]
    ELSE [panic |-> FALSE,
          g |-> [g EXCEPT !.adj[from + 1] = Append(@, <<to, weight>>),
                          !.edges = @ + 1]]

\* AL_add_edge counting the replacement of a weight as a new edge
AL_add_edge_counts_overwrite(g, from, to, weight) ==
    IF from >= g.vertices \/ to >= g.vertices
    THEN [panic |-> TRUE, g |-> g]
    ELSE LET k == AL_position(g.adj[from + 1], to)
         IN  IF k # 0
             THEN [panic |-> FALSE,
                   g |-> [g EXCEPT !.adj[from + 1][k] = <<to, weight>>,
                                   !.edges = @ + 1]]
             ELSE [panic |-> FALSE,
                   g |-> [g EXCEPT !.adj[from + 1] = Append(@, <<to, weight>>),
                                   !.edges = @ + 1]]

AL_add_edge(g, from, to, weight) ==
    IF from >= g.vertices \/ to >= g.vertices
    THEN [panic |-> TRUE, g |-> g]
    ELSE LET k == AL_position(g.adj[from + 1], to)
         IN  IF k # 0
             THEN [panic |-> FALSE,
                   g |-> [g EXCEPT !.adj[from + 1][k] = <<to, weight>>]]
             ELSE [panic |-> FALSE,
                   g |-> [g EXCEPT !.adj[from + 1] = Append(@, <<to, weight>>),
                                   !.edges = @ + 1]]

AL_get_edge(g, from, to) ==
    IF from >= g.vertices \/ to >= g.vertices
    THEN Abort
    ELSE LET k == AL_position(g.adj[from + 1], to)
         IN  IF k = 0 THEN Ok(None) ELSE Ok(Some(g.adj[from + 1][k][2]))

AL_remove_edge(g, from, to) ==
    IF from >= g.vertices \/ to >= g.vertices
    THEN [panic |-> TRUE, g |-> g]
    ELSE LET k == AL_position(g.adj[from + 1], to)
         IN  IF k # 0
             THEN [panic |-> FALSE,
                   g |-> [g EXCEPT !.adj[from + 1] = AL_vec_remove(@, k),
                                   !.edges = @ - 1]]
             ELSE [panic |-> FALSE, g |-> g]

\* AL_first_neighbor answering with the last entry of the list
AL_first_neighbor_last(g, vertex) ==
    IF vertex >= g.vertices THEN None
    ELSE LET adj_list == g.adj[vertex + 1]
         IN  IF Len(adj_list) = 0 THEN None ELSE Some(adj_list[Len(adj_list)][1])

AL_first_neighbor(g, vertex) ==
    IF vertex >= g.vertices THEN None
    ELSE LET adj_list == g.adj[vertex + 1]
         IN  IF Len(adj_list) = 0 THEN None ELSE Some(adj_list[1][1])

\* AL_next_neighbor starting over at the head of the list after the last entry
AL_next_neighbor_wraps(g, vertex, current_neighbor) ==
    IF vertex >= g.vertices THEN None
    ELSE LET adj_list == g.adj[vertex + 1]
             k        == AL_position(adj_list, current_neighbor)
         IN  IF k = 0 THEN None
             ELSE IF k + 1 <= Len(adj_list) THEN Some(adj_list[k + 1][1])
             ELSE Some(adj_list[1][1])

\* AL_next_neighbor answering with the head of the list when the cursor is
\* not in it
AL_next_neighbor_restarts(g, vertex, current_neighbor) ==
    IF vertex >= g.vertices THEN None
    ELSE LET adj_list == g.adj[vertex + 1]
             k        == AL_position(adj_list, current_neighbor)
         IN  IF k = 0 THEN (IF Len(adj_list) = 0 THEN None ELSE Some(adj_list[1][1]))
             ELSE IF k + 1 <= Len(adj_list) THEN Some(adj_list[k + 1][1])
             ELSE None

\* the loop returns at the first entry whose target is current_neighbor
AL_next_neighbor(g, vertex, current_neighbor) ==
    IF vertex >= g.vertices THEN None
    ELSE LET adj_list == g.adj[vertex + 1]
             k        == AL_position(adj_list, current_neighbor)
         IN  IF k = 0 THEN None
             ELSE IF k + 1 <= Len(adj_list) THEN Some(adj_list[k + 1][1])
             ELSE None

-----------------------------------------------------------------------------
(* OrthogonalList<T,W>  --  src/src/graph/orthogonal_list.rs *)
(* arcs is the arena: arcs[idx + 1] is None or Some(OLArc) *)

OLArc(tail_vex, head_vex, head_link, tail_link, weight) ==
    [ tail_vex |-> tail_vex, head_vex |-> head_vex,
      head_link |-> head_link, tail_link |-> tail_link, weight |-> weight ]

OLVertex(data, first_in, first_out) ==
    [ data |-> data, first_in |-> first_in, first_out |-> first_out ]

OL_new ==
    [ vertices |-> << >>, arcs |-> << >>, free_arc_head |-> None, edge_count |-> 0 ]

\* the struct after the push, and the index returned
OL_add_vertex(g, data) ==
    [ index |-> Len(g.vertices),
      g     |-> [g EXCEPT !.vertices = Append(@, OLVertex(data, None, None))] ]

OL_get_vertex_data(g, index) ==
    IF index < Len(g.vertices) THEN Some(g.vertices[index + 1].data) ELSE None

\* OL_alloc_arc putting the arc into the first emptied slot when there is one
OL_alloc_arc_reuses_slot(g, arc) ==
    LET empty == {k \in 1 .. Len(g.arcs) : g.arcs[k] = None}
    IN  IF empty = {}
        THEN [index |-> Len(g.arcs), g |-> [g EXCEPT !.arcs = Append(@, Some(arc))]]
        ELSE LET k == CHOOSE e \in empty : \A other \in empty : e <= other
             IN  [index |-> k - 1, g |-> [g EXCEPT !.arcs[k] = Some(arc)]]

\* both branches push: the free list is never consulted
OL_alloc_arc(g, arc) ==
    [ index |-> Len(g.arcs),
      g     |-> [g EXCEPT !.arcs = Append(@, Some(arc))] ]

\* OL_add_edge allocating the arc slot before it checks the indices
OL_add_edge_allocates_first(g, from, to, weight) ==
    IF from >= Len(g.vertices) \/ to >= Len(g.vertices)
    THEN [panic |-> TRUE,
          g |-> OL_alloc_arc(g, OLArc(from, to, None, None, weight)).g]
    ELSE LET tail_link == g.vertices[from + 1].first_out
             head_link == g.vertices[to + 1].first_in
             alloc     == OL_alloc_arc(g, OLArc(from, to, head_link, tail_link, weight))
             g1        == [alloc.g EXCEPT !.vertices[from + 1].first_out = Some(alloc.index)]
             g2        == [g1 EXCEPT !.vertices[to + 1].first_in = Some(alloc.index)]
         IN  [panic |-> FALSE, g |-> [g2 EXCEPT !.edge_count = @ + 1]]

\* OL_add_edge linking the new arc behind the head of from's out-chain
OL_add_edge_links_behind_head(g, from, to, weight) ==
    IF from >= Len(g.vertices) \/ to >= Len(g.vertices)
    THEN [panic |-> TRUE, g |-> g]
    ELSE LET first_out == g.vertices[from + 1].first_out
             head_link == g.vertices[to + 1].first_in
             tail_link == IF first_out = None THEN None
                          ELSE unwrap(g.arcs[unwrap(first_out) + 1]).tail_link
             alloc     == OL_alloc_arc(g, OLArc(from, to, head_link, tail_link, weight))
             g1        == IF first_out = None
                          THEN [alloc.g EXCEPT !.vertices[from + 1].first_out = Some(alloc.index)]
                          ELSE [alloc.g EXCEPT !.arcs[unwrap(first_out) + 1] =
                                    Some([unwrap(@) EXCEPT !.tail_link = Some(alloc.index)])]
             g2        == [g1 EXCEPT !.vertices[to + 1].first_in = Some(alloc.index)]
         IN  [panic |-> FALSE, g |-> [g2 EXCEPT !.edge_count = @ + 1]]

OL_add_edge(g, from, to, weight) ==
    IF from >= Len(g.vertices) \/ to >= Len(g.vertices)
    THEN [panic |-> TRUE, g |-> g]
    ELSE LET tail_link == g.vertices[from + 1].first_out
             head_link == g.vertices[to + 1].first_in
             alloc     == OL_alloc_arc(g, OLArc(from, to, head_link, tail_link, weight))
             g1        == [alloc.g EXCEPT !.vertices[from + 1].first_out = Some(alloc.index)]
             g2        == [g1 EXCEPT !.vertices[to + 1].first_in = Some(alloc.index)]
         IN  [panic |-> FALSE, g |-> [g2 EXCEPT !.edge_count = @ + 1]]

\* OL_get_edge_from walking on after a match and answering with the last one
RECURSIVE OL_get_edge_from_last_match(_, _, _)
OL_get_edge_from_last_match(g, to, curr) ==
    IF curr = None THEN None
    ELSE LET slot == g.arcs[unwrap(curr) + 1]
         IN  IF slot = None THEN None
             ELSE LET rest == OL_get_edge_from_last_match(g, to, unwrap(slot).tail_link)
                  IN  IF rest # None THEN rest
                      ELSE IF unwrap(slot).head_vex = to THEN Some(unwrap(slot).weight)
                      ELSE None

\* the while-let loop of get_edge, from cursor curr
RECURSIVE OL_get_edge_from(_, _, _)
OL_get_edge_from(g, to, curr) ==
    IF curr = None THEN None
    ELSE LET slot == g.arcs[unwrap(curr) + 1]
         IN  IF slot = None THEN None
             ELSE IF unwrap(slot).head_vex = to THEN Some(unwrap(slot).weight)
             ELSE OL_get_edge_from(g, to, unwrap(slot).tail_link)

OL_get_edge(g, from, to) ==
    IF from >= Len(g.vertices) \/ to >= Len(g.vertices)
    THEN None
    ELSE OL_get_edge_from(g, to, g.vertices[from + 1].first_out)

\* first loop of remove_edge: walks the out-chain for the first arc whose head is `to`
RECURSIVE OL_scan_out(_, _, _, _)
OL_scan_out(g, to, prev, curr) ==
    IF curr = None
    THEN [target |-> None, prev |-> prev, next_link |-> None]
    ELSE LET idx       == unwrap(curr)
             slot      == g.arcs[idx + 1]
             is_target == is_some(slot) /\ unwrap(slot).head_vex = to
             link      == IF is_some(slot) THEN unwrap(slot).tail_link ELSE None
         IN  IF is_target
             THEN [target |-> Some(idx), prev |-> prev, next_link |-> link]
             ELSE OL_scan_out(g, to, Some(idx), link)

\* second loop of remove_edge: walks the in-chain for the slot target_idx
RECURSIVE OL_scan_in(_, _, _, _)
OL_scan_in(g, target_idx, prev, curr) ==
    IF curr = None
    THEN [found |-> FALSE, prev |-> prev, next_link |-> None]
    ELSE LET idx       == unwrap(curr)
             slot      == g.arcs[idx + 1]
             is_target == is_some(slot) /\ idx = target_idx
             link      == IF is_some(slot) THEN unwrap(slot).head_link ELSE None
         IN  IF is_target
             THEN [found |-> TRUE, prev |-> prev, next_link |-> link]
             ELSE OL_scan_in(g, target_idx, Some(idx), link)

\* OL_splice_out writing the vertex head whatever the predecessor
OL_splice_out_head_only(g, from, prev, next_link) ==
    [g EXCEPT !.vertices[from + 1].first_out = next_link]

\* patch of the out-chain: the predecessor's tail_link, or the vertex head
OL_splice_out(g, from, prev, next_link) ==
    IF is_some(prev)
    THEN LET p == unwrap(prev)
         IN  IF p < Len(g.arcs) /\ is_some(g.arcs[p + 1])
             THEN [g EXCEPT !.arcs[p + 1] = Some([unwrap(@) EXCEPT !.tail_link = next_link])]
             ELSE g
    ELSE [g EXCEPT !.vertices[from + 1].first_out = next_link]

\* OL_splice_in left out: the arc is spliced out of the out-chain only
OL_splice_in_skipped(g, to, prev, next_link) == g

\* patch of the in-chain: the predecessor's head_link, or the vertex head
OL_splice_in(g, to, prev, next_link) ==
    IF is_some(prev)
    THEN LET p == unwrap(prev)
         IN  IF p < Len(g.arcs) /\ is_some(g.arcs[p + 1])
             THEN [g EXCEPT !.arcs[p + 1] = Some([unwrap(@) EXCEPT !.head_link = next_link])]
             ELSE g
    ELSE [g EXCEPT !.vertices[to + 1].first_in = next_link]

\* OL_remove_edge decrementing edge_count also when no arc was found
OL_remove_edge_always_counts(g, from, to) ==
    IF from >= Len(g.vertices) \/ to >= Len(g.vertices)
    THEN g
    ELSE LET out == OL_scan_out(g, to, None, g.vertices[from + 1].first_out)
         IN  IF out.target = None
             THEN [g EXCEPT !.edge_count = @ - 1]
             ELSE LET target_idx == unwrap(out.target)
                      g1 == OL_splice_out(g, from, out.prev, out.next_link)
                      inw == OL_scan_in(g1, target_idx, None, g1.vertices[to + 1].first_in)
                      g2 == IF inw.found
                            THEN OL_splice_in(g1, to, inw.prev, inw.next_link)
                            ELSE g1
                  IN  [g2 EXCEPT !.arcs[target_idx + 1] = None,
                                 !.edge_count = @ - 1]

OL_remove_edge(g, from, to) ==
    IF from >= Len(g.vertices) \/ to >= Len(g.vertices)
    THEN g
    ELSE LET out == OL_scan_out(g, to, None, g.vertices[from + 1].first_out)
         IN  IF out.target = None
             THEN g
             ELSE LET target_idx == unwrap(out.target)
                      g1 == OL_splice_out(g, from, out.prev, out.next_link)
                      inw == OL_scan_in(g1, target_idx, None, g1.vertices[to + 1].first_in)
                      g2 == IF inw.found
                            THEN OL_splice_in(g1, to, inw.prev, inw.next_link)
                            ELSE g1
                  IN  [g2 EXCEPT !.arcs[target_idx + 1] = None,
                                 !.edge_count = @ - 1]

-----------------------------------------------------------------------------
(* AdjacencyMultilist<T,W>  --  src/src/graph/adjacency_multilist.rs *)
(* edges is the arena: edges[idx + 1] is None or Some(AMLEdge) *)

AMLEdge(ivex, jvex, ilink, jlink, weight) ==
    [ ivex |-> ivex, jvex |-> jvex, ilink |-> ilink, jlink |-> jlink, weight |-> weight ]

AMLVertex(data, first_edge) ==
    [ data |-> data, first_edge |-> first_edge ]

AML_new ==
    [ vertices |-> << >>, edges |-> << >>, edge_count |-> 0 ]

\* AML_add_vertex reading the length after the push
AML_add_vertex_index_after_push(g, data) ==
    [ index |-> Len(g.vertices) + 1,
      g     |-> [g EXCEPT !.vertices = Append(@, AMLVertex(data, None))] ]

AML_add_vertex(g, data) ==
    [ index |-> Len(g.vertices),
      g     |-> [g EXCEPT !.vertices = Append(@, AMLVertex(data, None))] ]

AML_get_vertex_data(g, index) ==
    IF index < Len(g.vertices) THEN Some(g.vertices[index + 1].data) ELSE None

\* the two panic! messages of add_edge
AML_out_of_bounds == "Vertex index out of bounds"

AML_self_loop == "Self loops not supported in this simple implementation"

\* AML_add_edge testing for the self-loop before it tests the bounds
AML_add_edge_self_loop_first(g, i, j, weight) ==
    IF i = j
    THEN [panic |-> TRUE, msg |-> AML_self_loop, g |-> g]
    ELSE IF i >= Len(g.vertices) \/ j >= Len(g.vertices)
    THEN [panic |-> TRUE, msg |-> AML_out_of_bounds, g |-> g]
    ELSE LET ilink    == g.vertices[i + 1].first_edge
             jlink    == g.vertices[j + 1].first_edge
             edge_idx == Len(g.edges)
             g1       == [g EXCEPT !.edges = Append(@, Some(AMLEdge(i, j, ilink, jlink, weight)))]
             g2       == [g1 EXCEPT !.vertices[i + 1].first_edge = Some(edge_idx)]
             g3       == [g2 EXCEPT !.vertices[j + 1].first_edge = Some(edge_idx)]
         IN  [panic |-> FALSE, msg |-> "",
              g |-> [g3 EXCEPT !.edge_count = @ + 1]]

\* AML_add_edge leaving the chain head of j as it was
AML_add_edge_keeps_j_head(g, i, j, weight) ==
    IF i >= Len(g.vertices) \/ j >= Len(g.vertices)
    THEN [panic |-> TRUE, msg |-> AML_out_of_bounds, g |-> g]
    ELSE IF i = j
    THEN [panic |-> TRUE, msg |-> AML_self_loop, g |-> g]
    ELSE LET ilink    == g.vertices[i + 1].first_edge
             jlink    == g.vertices[j + 1].first_edge
             edge_idx == Len(g.edges)
             g1       == [g EXCEPT !.edges = Append(@, Some(AMLEdge(i, j, ilink, jlink, weight)))]
             g2       == [g1 EXCEPT !.vertices[i + 1].first_edge = Some(edge_idx)]
         IN  [panic |-> FALSE, msg |-> "",
              g |-> [g2 EXCEPT !.edge_count = @ + 1]]

\* msg is the message of the panic, "" when the call returns
AML_add_edge(g, i, j, weight) ==
    IF i >= Len(g.vertices) \/ j >= Len(g.vertices)
    THEN [panic |-> TRUE, msg |-> AML_out_of_bounds, g |-> g]
    ELSE IF i = j
    THEN [panic |-> TRUE, msg |-> AML_self_loop, g |-> g]
    ELSE LET ilink    == g.vertices[i + 1].first_edge
             jlink    == g.vertices[j + 1].first_edge
             edge_idx == Len(g.edges)
             g1       == [g EXCEPT !.edges = Append(@, Some(AMLEdge(i, j, ilink, jlink, weight)))]
             g2       == [g1 EXCEPT !.vertices[i + 1].first_edge = Some(edge_idx)]
             g3       == [g2 EXCEPT !.vertices[j + 1].first_edge = Some(edge_idx)]
         IN  [panic |-> FALSE, msg |-> "",
              g |-> [g3 EXCEPT !.edge_count = @ + 1]]

\* AML_find_edge comparing against the stored order (i,j) only
RECURSIVE AML_find_edge_one_order(_, _, _, _)
AML_find_edge_one_order(g, i, j, curr) ==
    IF curr = None THEN None
    ELSE LET idx  == unwrap(curr)
             slot == g.edges[idx + 1]
         IN  IF slot = None THEN None
             ELSE LET edge == unwrap(slot)
                  IN  IF edge.ivex = i /\ edge.jvex = j
                      THEN Some(idx)
                      ELSE IF edge.ivex = i
                      THEN AML_find_edge_one_order(g, i, j, edge.ilink)
                      ELSE AML_find_edge_one_order(g, i, j, edge.jlink)

\* the search loop of remove_edge along i's chain, from cursor curr
RECURSIVE AML_find_edge(_, _, _, _)
AML_find_edge(g, i, j, curr) ==
    IF curr = None THEN None
    ELSE LET idx  == unwrap(curr)
             slot == g.edges[idx + 1]
         IN  IF slot = None THEN None
             ELSE LET edge == unwrap(slot)
                  IN  IF (edge.ivex = i /\ edge.jvex = j) \/ (edge.ivex = j /\ edge.jvex = i)
                      THEN Some(idx)
                      ELSE IF edge.ivex = i
                      THEN AML_find_edge(g, i, j, edge.ilink)
                      ELSE AML_find_edge(g, i, j, edge.jlink)

\* the loop of remove_edge_from_vertex; an emptied slot reads as (false, None, None, 0)
RECURSIVE AML_scan(_, _, _, _, _)
AML_scan(g, vertex, target_edge_idx, prev, curr) ==
    IF curr = None
    THEN [found |-> FALSE, prev |-> prev, next_link |-> None]
    ELSE LET idx       == unwrap(curr)
             slot      == g.edges[idx + 1]
             is_target == is_some(slot) /\ idx = target_edge_idx
             i_link    == IF is_some(slot) THEN unwrap(slot).ilink ELSE None
             j_link    == IF is_some(slot) THEN unwrap(slot).jlink ELSE None
             ivex      == IF is_some(slot) THEN unwrap(slot).ivex ELSE 0
             link      == IF ivex = vertex THEN i_link ELSE j_link
         IN  IF is_target
             THEN [found |-> TRUE, prev |-> prev, next_link |-> link]
             ELSE AML_scan(g, vertex, target_edge_idx, Some(idx), link)

\* AML_remove_edge_from_vertex patching the predecessor's ilink whichever
\* endpoint of the predecessor the vertex is
AML_remove_edge_from_vertex_ilink(g, vertex, target_edge_idx) ==
    LET scan == AML_scan(g, vertex, target_edge_idx, None, g.vertices[vertex + 1].first_edge)
    IN  IF ~scan.found THEN g
        ELSE IF is_some(scan.prev)
        THEN LET p == unwrap(scan.prev)
             IN  IF p < Len(g.edges) /\ is_some(g.edges[p + 1])
                 THEN [g EXCEPT !.edges[p + 1] =
                           Some([unwrap(@) EXCEPT !.ilink = scan.next_link])]
                 ELSE g
        ELSE [g EXCEPT !.vertices[vertex + 1].first_edge = scan.next_link]

AML_remove_edge_from_vertex(g, vertex, target_edge_idx) ==
    LET scan == AML_scan(g, vertex, target_edge_idx, None, g.vertices[vertex + 1].first_edge)
    IN  IF ~scan.found THEN g
        ELSE IF is_some(scan.prev)
        THEN LET p == unwrap(scan.prev)
             IN  IF p < Len(g.edges) /\ is_some(g.edges[p + 1])
                 THEN IF unwrap(g.edges[p + 1]).ivex = vertex
                      THEN [g EXCEPT !.edges[p + 1] =
                                Some([unwrap(@) EXCEPT !.ilink = scan.next_link])]
                      ELSE [g EXCEPT !.edges[p + 1] =
                                Some([unwrap(@) EXCEPT !.jlink = scan.next_link])]
                 ELSE g
        ELSE [g EXCEPT !.vertices[vertex + 1].first_edge = scan.next_link]

\* AML_remove_edge splicing the record out of i's chain only
AML_remove_edge_one_chain(g, i, j) ==
    IF i >= Len(g.vertices) \/ j >= Len(g.vertices)
    THEN g
    ELSE LET edge_idx_opt == AML_find_edge(g, i, j, g.vertices[i + 1].first_edge)
         IN  IF edge_idx_opt = None
             THEN g
             ELSE LET target_idx == unwrap(edge_idx_opt)
                      g1 == AML_remove_edge_from_vertex(g, i, target_idx)
                  IN  [g1 EXCEPT !.edges[target_idx + 1] = None,
                                 !.edge_count = @ - 1]

AML_remove_edge(g, i, j) ==
    IF i >= Len(g.vertices) \/ j >= Len(g.vertices)
    THEN g
    ELSE LET edge_idx_opt == AML_find_edge(g, i, j, g.vertices[i + 1].first_edge)
         IN  IF edge_idx_opt = None
             THEN g
             ELSE LET target_idx == unwrap(edge_idx_opt)
                      g1 == AML_remove_edge_from_vertex(g, i, target_idx)
                      g2 == AML_remove_edge_from_vertex(g1, j, target_idx)
                  IN  [g2 EXCEPT !.edges[target_idx + 1] = None,
                                 !.edge_count = @ - 1]

-----------------------------------------------------------------------------
(* SymmetricMatrix  --  src/src/graph/symmetric_matrix.rs *)
(* elements holds the lower triangle row by row, diagonal included *)

SM_new(size) ==
    [ size     |-> size,
      elements |-> [k \in 1 .. (size * (size + 1)) \div 2 |-> 0] ]

\* SM_to_index without the swap into the lower triangle
SM_to_index_unswapped(m, row, col) ==
    IF row >= m.size \/ col >= m.size THEN Abort
    ELSE Ok((row * (row + 1)) \div 2 + col)

\* SM_to_index counting row r as starting after r * (r - 1) / 2 elements
SM_to_index_short_rows(m, row, col) ==
    IF row >= m.size \/ col >= m.size THEN Abort
    ELSE LET r == IF row >= col THEN row ELSE col
             c == IF row >= col THEN col ELSE row
         IN  Ok((IF r = 0 THEN 0 ELSE (r * (r - 1)) \div 2) + c)

SM_to_index(m, row, col) ==
    IF row >= m.size \/ col >= m.size THEN Abort
    ELSE LET r == IF row >= col THEN row ELSE col
             c == IF row >= col THEN col ELSE row
         IN  Ok((r * (r + 1)) \div 2 + c)

\* the indexing self.elements[index] aborts past the end of the vector
SM_set(m, row, col, value) ==
    LET index == SM_to_index(m, row, col)
    IN  IF index.panic \/ index.value >= Len(m.elements)
        THEN [panic |-> TRUE, g |-> m]
        ELSE [panic |-> FALSE,
              g |-> [m EXCEPT !.elements[index.value + 1] = value]]

SM_get(m, row, col) ==
    LET index == SM_to_index(m, row, col)
    IN  IF index.panic \/ index.value >= Len(m.elements)
        THEN Abort
        ELSE Ok(m.elements[index.value + 1])

\* SM_fill leaving the diagonal out: row i is 0 .. i
RECURSIVE SM_fill_below_diagonal(_, _, _, _)
SM_fill_below_diagonal(result, matrix, i, j) ==
    IF i >= result.size THEN result
    ELSE IF j >= i THEN SM_fill_below_diagonal(result, matrix, i + 1, 0)
    ELSE SM_fill_below_diagonal(SM_set(result, i, j, matrix[i + 1][j + 1]).g,
                                matrix, i, j + 1)

\* SM_fill copying the upper triangle: cell (i, j) takes matrix[j][i]
RECURSIVE SM_fill_from_upper_triangle(_, _, _, _)
SM_fill_from_upper_triangle(result, matrix, i, j) ==
    IF i >= result.size THEN result
    ELSE IF j > i THEN SM_fill_from_upper_triangle(result, matrix, i + 1, 0)
    ELSE SM_fill_from_upper_triangle(SM_set(result, i, j, matrix[j + 1][i + 1]).g,
                                     matrix, i, j + 1)

\* the two loops of from_matrix, from cell (i, j) on; row i is 0 ..= i
RECURSIVE SM_fill(_, _, _, _)
SM_fill(result, matrix, i, j) ==
    IF i >= result.size THEN result
    ELSE IF j > i THEN SM_fill(result, matrix, i + 1, 0)
    ELSE SM_fill(SM_set(result, i, j, matrix[i + 1][j + 1]).g, matrix, i, j + 1)

\* SM_from_matrix rejecting short rows only
SM_from_matrix_accepts_long_rows(matrix) ==
    LET size == Len(matrix)
    IN  IF \E k \in 1 .. size : Len(matrix[k]) < size
        THEN [panic |-> TRUE, g |-> None]
        ELSE [panic |-> FALSE, g |-> Some(SM_fill(SM_new(size), matrix, 0, 0))]

\* Option of the matrix built: None when the call panicked
SM_from_matrix(matrix) ==
    LET size == Len(matrix)
    IN  IF \E k \in 1 .. size : Len(matrix[k]) # size
        THEN [panic |-> TRUE, g |-> None]
        ELSE [panic |-> FALSE, g |-> Some(SM_fill(SM_new(size), matrix, 0, 0))]

SM_to_matrix(m) ==
    [i \in 1 .. m.size |-> [j \in 1 .. m.size |-> SM_get(m, i - 1, j - 1).value]]

-----------------------------------------------------------------------------
(* UnionFind  --  src/src/union_find.rs *)
(* the struct is the vector itself: entry x is the parent of x, or the     *)
(* negated size of the set when x is a root.  Result<X, &str> is a record: *)
(* err tells Err from Ok, value is the X, g the vector the call leaves.    *)

UF_new(size) == [k \in 1 .. size |-> -1]

UF_abs(v) == IF v < 0 THEN -v ELSE v

\* the first loop of find: follow parents until a negative entry
RECURSIVE UF_root(_, _)
UF_root(u, root) ==
    IF u[root + 1] >= 0 THEN UF_root(u, u[root + 1]) ELSE root

\* the second loop of find: point every element of the path at root
RECURSIVE UF_compress(_, _, _)
UF_compress(u, x, root) ==
    IF x # root
    THEN UF_compress([u EXCEPT ![x + 1] = root], u[x + 1], root)
    ELSE u

UF_find(u, x) ==
    IF x < 0 \/ x >= Len(u)
    THEN [err |-> TRUE, value |-> None, g |-> u]
    ELSE LET root == UF_root(u, x)
         IN  [err |-> FALSE, value |-> Some(root), g |-> UF_compress(u, x, root)]

\* UF_union that leaves the size of the new root as it was
UF_union_size_not_added(u, x, y) ==
    LET f1 == UF_find(u, x)
    IN  IF f1.err THEN [err |-> TRUE, g |-> f1.g]
        ELSE LET f2 == UF_find(f1.g, y)
             IN  IF f2.err THEN [err |-> TRUE, g |-> f2.g]
                 ELSE LET root1 == unwrap(f1.value)
                          root2 == unwrap(f2.value)
                          v     == f2.g
                      IN  IF root1 = root2 THEN [err |-> FALSE, g |-> v]
                          ELSE IF UF_abs(v[root1 + 1]) > UF_abs(v[root2 + 1])
                          THEN [err |-> FALSE, g |-> [v EXCEPT ![root2 + 1] = root1]]
                          ELSE [err |-> FALSE, g |-> [v EXCEPT ![root1 + 1] = root2]]

\* UF_union that puts y's root under x's root when the sizes are equal
UF_union_ties_under_x(u, x, y) ==
    LET f1 == UF_find(u, x)
    IN  IF f1.err THEN [err |-> TRUE, g |-> f1.g]
        ELSE LET f2 == UF_find(f1.g, y)
             IN  IF f2.err THEN [err |-> TRUE, g |-> f2.g]
                 ELSE LET root1 == unwrap(f1.value)
                          root2 == unwrap(f2.value)
                          v     == f2.g
                      IN  IF root1 = root2 THEN [err |-> FALSE, g |-> v]
                          ELSE IF UF_abs(v[root1 + 1]) >= UF_abs(v[root2 + 1])
                          THEN [err |-> FALSE,
                                g |-> [v EXCEPT ![root1 + 1] = @ + v[root2 + 1],
                                                ![root2 + 1] = root1]]
                          ELSE [err |-> FALSE,
                                g |-> [v EXCEPT ![root2 + 1] = @ + v[root1 + 1],
                                                ![root1 + 1] = root2]]

\* the `?` after each find returns its Err; the first find has compressed
\* the path of x by the time the second one fails
UF_union(u, x, y) ==
    LET f1 == UF_find(u, x)
    IN  IF f1.err THEN [err |-> TRUE, g |-> f1.g]
        ELSE LET f2 == UF_find(f1.g, y)
             IN  IF f2.err THEN [err |-> TRUE, g |-> f2.g]
                 ELSE LET root1 == unwrap(f1.value)
                          root2 == unwrap(f2.value)
                          v     == f2.g
                      IN  IF root1 = root2 THEN [err |-> FALSE, g |-> v]
                          ELSE IF UF_abs(v[root1 + 1]) > UF_abs(v[root2 + 1])
                          THEN [err |-> FALSE,
                                g |-> [v EXCEPT ![root1 + 1] = @ + v[root2 + 1],
                                                ![root2 + 1] = root1]]
                          ELSE [err |-> FALSE,
                                g |-> [v EXCEPT ![root2 + 1] = @ + v[root1 + 1],
                                                ![root1 + 1] = root2]]

-----------------------------------------------------------------------------
(* is_valid_parentheses  --  src/src/bin/stack_application.rs *)
(* A call is the record of its locals: input is s as the sequence of its   *)
(* characters, pos the number of characters the for loop has consumed,     *)
(* stack the Vec<char>, and pc its position in the code:                   *)
(*   "idle"      not called        "loop"   at `for c in s.chars()`        *)
(*   "returned"  result holds the boolean returned                         *)
(*   "panicked"  expect() on the None of an empty stack                    *)

Paren_idle ==
    [ pc |-> "idle", input |-> << >>, pos |-> 0, stack |-> << >>, result |-> FALSE ]

\* let mut stack = Vec::new()
Paren_enter(s) == [Paren_idle EXCEPT !.pc = "loop", !.input = s]

\* the opening bracket that the arm of closing bracket c compares with
Paren_opener(c) == IF c = ")" THEN "(" ELSE IF c = "]" THEN "[" ELSE "{"

\* one pass through the body of the for loop, or the return after it
Paren_step(p) ==
    IF p.pos >= Len(p.input)
    THEN [p EXCEPT !.pc = "returned", !.result = (p.stack = << >>)]
    ELSE LET c    == p.input[p.pos + 1]
             next == [p EXCEPT !.pos = @ + 1]
         IN  IF c \in {"(", "[", "{"}
             THEN [next EXCEPT !.stack = Append(@, c)]
             ELSE IF c \in {")", "]", "}"}
             THEN IF p.stack = << >>
                  THEN [next EXCEPT !.pc = "panicked"]
                  ELSE LET popped == [next EXCEPT !.stack = SubSeq(@, 1, Len(@) - 1)]
                       IN  IF p.stack[Len(p.stack)] # Paren_opener(c)
                           THEN [popped EXCEPT !.pc = "returned", !.result = FALSE]
                           ELSE popped
             ELSE next

\* the call run to its end
RECURSIVE Paren_run(_)
Paren_run(p) == IF p.pc = "loop" THEN Paren_run(Paren_step(p)) ELSE p

is_valid_parentheses(s) == Paren_run(Paren_enter(s))

\* what main prints: nothing when the call panicked
main_prints(s) ==
    LET p == is_valid_parentheses(s)
    IN  IF p.pc = "panicked" THEN None
        ELSE IF p.result THEN Some("Success!") ELSE Some("Failure!")

-----------------------------------------------------------------------------
(* Traversal  --  src/src/graph/traversal.rs *)
(* breadth_first_search is generic in G: GraphNeighbor; `kind` names the    *)
(* implementation the call is dispatched to.  A call in progress is the    *)
(* record of its locals: visited, queue, current, neighbor, the visitor's  *)
(* `order` (CollectVisitor), and pc, its position in the code:             *)
(*   "idle"     not called                                                 *)
(*   "outer"    at `while let Some(current) = queue.pop_front()`           *)
(*   "inner"    at `while let Some(next) = neighbor`                       *)
(*   "done"     returned          "panicked"  index out of bounds          *)

first_neighbor(kind, g, vertex) ==
    IF kind = "AdjacencyMatrix" THEN AM_first_neighbor(g, vertex)
    ELSE AL_first_neighbor(g, vertex)

next_neighbor(kind, g, vertex, current_neighbor) ==
    IF kind = "AdjacencyMatrix" THEN AM_next_neighbor(g, vertex, current_neighbor)
    ELSE AL_next_neighbor(g, vertex, current_neighbor)

BFS_idle ==
    [ pc |-> "idle", start |-> 0, vertex_count |-> 0, visited |-> << >>,
      queue |-> << >>, order |-> << >>, current |-> None, neighbor |-> None ]

\* BFS_enter leaving the start vertex unmarked
BFS_enter_start_unmarked(start, vertex_count) ==
    LET s == [BFS_idle EXCEPT !.start = start, !.vertex_count = vertex_count,
                              !.visited = [i \in 1 .. vertex_count |-> FALSE]]
    IN  IF start >= vertex_count
        THEN [s EXCEPT !.pc = "panicked"]
        ELSE [s EXCEPT !.pc = "outer",
                       !.order = Append(@, start),
                       !.queue = Append(@, start)]

\* the prologue: allocate visited and queue, mark, visit and enqueue start
BFS_enter(start, vertex_count) ==
    LET s == [BFS_idle EXCEPT !.start = start, !.vertex_count = vertex_count,
                              !.visited = [i \in 1 .. vertex_count |-> FALSE]]
    IN  IF start >= vertex_count
        THEN [s EXCEPT !.pc = "panicked"]
        ELSE [s EXCEPT !.pc = "outer",
                       !.visited[start + 1] = TRUE,
                       !.order = Append(@, start),
                       !.queue = Append(@, start)]

\* BFS_pop_front taking the vertex from the back of the queue
BFS_pop_back(kind, g, s) ==
    IF Len(s.queue) = 0
    THEN [s EXCEPT !.pc = "done", !.current = None]
    ELSE LET current == s.queue[Len(s.queue)]
         IN  [s EXCEPT !.pc = "inner",
                       !.queue = SubSeq(@, 1, Len(@) - 1),
                       !.current = Some(current),
                       !.neighbor = first_neighbor(kind, g, current)]

\* BFS_pop_front reading the front of the queue without removing it
BFS_pop_front_peeks(kind, g, s) ==
    IF Len(s.queue) = 0
    THEN [s EXCEPT !.pc = "done", !.current = None]
    ELSE LET current == Head(s.queue)
         IN  [s EXCEPT !.pc = "inner",
                       !.current = Some(current),
                       !.neighbor = first_neighbor(kind, g, current)]

\* the test of the outer loop and the first statement of its body
BFS_pop_front(kind, g, s) ==
    IF Len(s.queue) = 0
    THEN [s EXCEPT !.pc = "done", !.current = None]
    ELSE LET current == Head(s.queue)
         IN  [s EXCEPT !.pc = "inner",
                       !.queue = Tail(@),
                       !.current = Some(current),
                       !.neighbor = first_neighbor(kind, g, current)]

\* BFS_visit_neighbor visiting and enqueueing without marking
BFS_visit_neighbor_unmarked(kind, g, s) ==
    IF ~is_some(s.neighbor)
    THEN [s EXCEPT !.pc = "outer"]
    ELSE LET next    == unwrap(s.neighbor)
             current == unwrap(s.current)
         IN  IF next >= s.vertex_count
             THEN [s EXCEPT !.pc = "panicked"]
             ELSE IF ~s.visited[next + 1]
             THEN [s EXCEPT !.order = Append(@, next),
                            !.queue = Append(@, next),
                            !.neighbor = next_neighbor(kind, g, current, next)]
             ELSE [s EXCEPT !.neighbor = next_neighbor(kind, g, current, next)]

\* BFS_visit_neighbor passing over a neighbor that visited has no entry for
BFS_visit_neighbor_skips_out_of_range(kind, g, s) ==
    IF ~is_some(s.neighbor)
    THEN [s EXCEPT !.pc = "outer"]
    ELSE LET next    == unwrap(s.neighbor)
             current == unwrap(s.current)
         IN  IF next < s.vertex_count /\ ~s.visited[next + 1]
             THEN [s EXCEPT !.visited[next + 1] = TRUE,
                            !.order = Append(@, next),
                            !.queue = Append(@, next),
                            !.neighbor = next_neighbor(kind, g, current, next)]
             ELSE [s EXCEPT !.neighbor = next_neighbor(kind, g, current, next)]

\* the test of the inner loop and one pass through its body
BFS_visit_neighbor(kind, g, s) ==
    IF ~is_some(s.neighbor)
    THEN [s EXCEPT !.pc = "outer"]
    ELSE LET next    == unwrap(s.neighbor)
             current == unwrap(s.current)
         IN  IF next >= s.vertex_count
             THEN [s EXCEPT !.pc = "panicked"]
             ELSE IF ~s.visited[next + 1]
             THEN [s EXCEPT !.visited[next + 1] = TRUE,
                            !.order = Append(@, next),
                            !.queue = Append(@, next),
                            !.neighbor = next_neighbor(kind, g, current, next)]
             ELSE [s EXCEPT !.neighbor = next_neighbor(kind, g, current, next)]

\* the call run to its end
RECURSIVE BFS_run(_, _, _)
BFS_run(kind, g, s) ==
    IF s.pc = "outer" THEN BFS_run(kind, g, BFS_pop_front(kind, g, s))
    ELSE IF s.pc = "inner" THEN BFS_run(kind, g, BFS_visit_neighbor(kind, g, s))
    ELSE s

breadth_first_search(kind, g, start, vertex_count) ==
    BFS_run(kind, g, BFS_enter(start, vertex_count))

-----------------------------------------------------------------------------
(* The client: one call per step on the instance it constructed.  Every    *)
(* call is made with every index of Indices, out-of-range ones included.   *)

Reprs == {"AdjacencyMatrix", "AdjacencyList", "OrthogonalList", "AdjacencyMultilist"}

Init ==
    \E r \in Reprs, n \in 0 .. MaxVertices :
        /\ repr = r
        /\ am   = AM_new(IF r = "AdjacencyMatrix" THEN n ELSE 0)
        /\ al   = AL_new(IF r = "AdjacencyList" THEN n ELSE 0)
        /\ ol   = OL_new
        /\ aml  = AML_new
        /\ panicked = FALSE
        /\ bfs = BFS_idle
        /\ sm = None /\ sm_input = None
        /\ uf = UF_new(0) /\ paren = Paren_idle

AMSetVertexData ==
    /\ repr = "AdjacencyMatrix" /\ ~panicked
    /\ \E vertex \in Indices, data \in Data :
          LET r == AM_set_vertex_data(am, vertex, data)
          IN  /\ am' = r.g
              /\ panicked' = r.panic
    /\ UNCHANGED <<repr, al, ol, aml, bfs, sm, sm_input, uf, paren>>

AMAddEdge ==
    /\ repr = "AdjacencyMatrix" /\ ~panicked
    /\ \E from \in Indices, to \in Indices, weight \in OptWeights :
          LET r == AM_add_edge(am, from, to, weight)
          IN  /\ r.g.edges <= MaxEdges
              /\ am' = r.g
              /\ panicked' = r.panic
    /\ UNCHANGED <<repr, al, ol, aml, bfs, sm, sm_input, uf, paren>>

AMRemoveEdge ==
    /\ repr = "AdjacencyMatrix" /\ ~panicked
    /\ \E from \in Indices, to \in Indices :
          LET r == AM_remove_edge(am, from, to)
          IN  /\ am' = r.g
              /\ panicked' = r.panic
    /\ UNCHANGED <<repr, al, ol, aml, bfs, sm, sm_input, uf, paren>>

ALSetVertexData ==
    /\ repr = "AdjacencyList" /\ ~panicked
    /\ \E vertex \in Indices, data \in Data :
          LET r == AL_set_vertex_data(al, vertex, data)
          IN  /\ al' = r.g
              /\ panicked' = r.panic
    /\ UNCHANGED <<repr, am, ol, aml, bfs, sm, sm_input, uf, paren>>

ALAddEdge ==
    /\ repr = "AdjacencyList" /\ ~panicked
    /\ \E from \in Indices, to \in Indices, weight \in Weights :
          LET r == AL_add_edge(al, from, to, weight)
          IN  /\ r.g.edges <= MaxEdges
              /\ al' = r.g
              /\ panicked' = r.panic
    /\ UNCHANGED <<repr, am, ol, aml, bfs, sm, sm_input, uf, paren>>

ALRemoveEdge ==
    /\ repr = "AdjacencyList" /\ ~panicked
    /\ \E from \in Indices, to \in Indices :
          LET r == AL_remove_edge(al, from, to)
          IN  /\ al' = r.g
              /\ panicked' = r.panic
    /\ UNCHANGED <<repr, am, ol, aml, bfs, sm, sm_input, uf, paren>>

OLAddVertex ==
    /\ repr = "OrthogonalList" /\ ~panicked
    /\ Len(ol.vertices) < MaxVertices
    /\ \E data \in Data : ol' = OL_add_vertex(ol, data).g
    /\ UNCHANGED <<repr, am, al, aml, panicked, bfs, sm, sm_input, uf, paren>>

OLAddEdge ==
    /\ repr = "OrthogonalList" /\ ~panicked
    /\ Len(ol.arcs) < MaxArcs
    /\ \E from \in Indices, to \in Indices, weight \in Weights :
          LET r == OL_add_edge(ol, from, to, weight)
          IN  /\ ol' = r.g
              /\ panicked' = r.panic
    /\ UNCHANGED <<repr, am, al, aml, bfs, sm, sm_input, uf, paren>>

OLRemoveEdge ==
    /\ repr = "OrthogonalList" /\ ~panicked
    /\ \E from \in Indices, to \in Indices : ol' = OL_remove_edge(ol, from, to)
    /\ UNCHANGED <<repr, am, al, aml, panicked, bfs, sm, sm_input, uf, paren>>

AMLAddVertex ==
    /\ repr = "AdjacencyMultilist" /\ ~panicked
    /\ Len(aml.vertices) < MaxMultilistVertices
    /\ \E data \in Data : aml' = AML_add_vertex(aml, data).g
    /\ UNCHANGED <<repr, am, al, ol, panicked, bfs, sm, sm_input, uf, paren>>

AMLAddEdge ==
    /\ repr = "AdjacencyMultilist" /\ ~panicked
    /\ Len(aml.edges) < MaxArcs
    /\ \E i \in MultilistIndices, j \in MultilistIndices, weight \in MultilistWeights :
          LET r == AML_add_edge(aml, i, j, weight)
          IN  /\ aml' = r.g
              /\ panicked' = r.panic
    /\ UNCHANGED <<repr, am, al, ol, bfs, sm, sm_input, uf, paren>>

AMLRemoveEdge ==
    /\ repr = "AdjacencyMultilist" /\ ~panicked
    /\ \E i \in MultilistIndices, j \in MultilistIndices : aml' = AML_remove_edge(aml, i, j)
    /\ UNCHANGED <<repr, am, al, ol, panicked, bfs, sm, sm_input, uf, paren>>

Next ==
    \/ AMSetVertexData \/ AMAddEdge \/ AMRemoveEdge
    \/ ALSetVertexData \/ ALAddEdge \/ ALRemoveEdge
    \/ OLAddVertex \/ OLAddEdge \/ OLRemoveEdge
    \/ AMLAddVertex \/ AMLAddEdge \/ AMLRemoveEdge

Spec == Init /\ [][Next]_vars

-----------------------------------------------------------------------------
(* The traversal client: it constructs an AdjacencyMatrix or an             *)
(* AdjacencyList, adds edges between its vertices, then calls              *)
(* breadth_first_search once with vertex_count = graph.vertices().  The     *)
(* call advances one loop test at a time.  The graphs of the two BFS tests  *)
(* of the repository are among the graphs it starts from.                  *)

TraversalReprs == {"AdjacencyMatrix", "AdjacencyList"}

\* the graph of test_bfs_adjacency_matrix
TestBfsMatrix ==
    LET g1 == AM_add_edge(AM_new(5), 0, 1, Some(1)).g
        g2 == AM_add_edge(g1, 0, 2, Some(1)).g
        g3 == AM_add_edge(g2, 1, 3, Some(1)).g
        g4 == AM_add_edge(g3, 1, 4, Some(1)).g
    IN  AM_add_edge(g4, 2, 4, Some(1)).g

\* the graph of test_bfs_adjacency_list
TestBfsList ==
    LET g1 == AL_add_edge(AL_new(5), 0, 1, 1).g
        g2 == AL_add_edge(g1, 0, 2, 1).g
        g3 == AL_add_edge(g2, 1, 3, 1).g
        g4 == AL_add_edge(g3, 1, 4, 1).g
    IN  AL_add_edge(g4, 2, 4, 1).g

InitBFS ==
    /\ ol = OL_new
    /\ aml = AML_new
    /\ panicked = FALSE
    /\ bfs = BFS_idle
    /\ sm = None /\ sm_input = None
    /\ uf = UF_new(0) /\ paren = Paren_idle
    /\ \/ \E r \in TraversalReprs, n \in 0 .. MaxBfsVertices :
            /\ repr = r
            /\ am = AM_new(IF r = "AdjacencyMatrix" THEN n ELSE 0)
            /\ al = AL_new(IF r = "AdjacencyList" THEN n ELSE 0)
       \/ /\ repr = "AdjacencyMatrix"
          /\ am = TestBfsMatrix
          /\ al = AL_new(0)
       \/ /\ repr = "AdjacencyList"
          /\ am = AM_new(0)
          /\ al = TestBfsList

\* the graph the traversal runs on
graph == IF repr = "AdjacencyMatrix" THEN am ELSE al

BFSMatrixAddEdge ==
    /\ repr = "AdjacencyMatrix" /\ bfs.pc = "idle"
    /\ am.edges < MaxBfsEdges
    /\ \E from \in 0 .. am.vertices - 1, to \in 0 .. am.vertices - 1,
          weight \in TraversalWeights :
            am' = AM_add_edge(am, from, to, Some(weight)).g
    /\ UNCHANGED <<repr, al, ol, aml, panicked, bfs, sm, sm_input, uf, paren>>

BFSListAddEdge ==
    /\ repr = "AdjacencyList" /\ bfs.pc = "idle"
    /\ al.edges < MaxBfsEdges
    /\ \E from \in 0 .. al.vertices - 1, to \in 0 .. al.vertices - 1,
          weight \in TraversalWeights :
            al' = AL_add_edge(al, from, to, weight).g
    /\ UNCHANGED <<repr, am, ol, aml, panicked, bfs, sm, sm_input, uf, paren>>

\* breadth_first_search(&graph, start, &mut visitor, graph.vertices()); the
\* largest start is out of range
BFSCall ==
    /\ bfs.pc = "idle"
    /\ \E start \in 0 .. graph.vertices :
            bfs' = BFS_enter(start, graph.vertices)
    /\ panicked' = (bfs'.pc = "panicked")
    /\ UNCHANGED <<repr, am, al, ol, aml, sm, sm_input, uf, paren>>

BFSPopFront ==
    /\ bfs.pc = "outer"
    /\ bfs' = BFS_pop_front(repr, graph, bfs)
    /\ UNCHANGED <<repr, am, al, ol, aml, panicked, sm, sm_input, uf, paren>>

BFSVisitNeighbor ==
    /\ bfs.pc = "inner"
    /\ bfs' = BFS_visit_neighbor(repr, graph, bfs)
    /\ panicked' = (bfs'.pc = "panicked")
    /\ UNCHANGED <<repr, am, al, ol, aml, sm, sm_input, uf, paren>>

NextBFS ==
    \/ BFSMatrixAddEdge \/ BFSListAddEdge
    \/ BFSCall \/ BFSPopFront \/ BFSVisitNeighbor

SpecBFS == InitBFS /\ [][NextBFS]_vars

\* the call is sequential code: once entered, each loop test is executed
FairSpecBFS ==
    SpecBFS /\ WF_vars(BFSPopFront) /\ WF_vars(BFSVisitNeighbor)

-----------------------------------------------------------------------------
(* The clients of SymmetricMatrix (tests::test_symmetric_matrix): one makes *)
(* a matrix with new and writes cells, every index of 0 .. size included,   *)
(* the last one out of range; the other hands a two-dimensional vector,     *)
(* square or not, to from_matrix and reads the result back.  sm is the      *)
(* Option of the instance, sm_input the Option of the vector.               *)

\* vectors of i32 of length 0 .. n
SymRows(n) == UNION {[1 .. len -> SymValues] : len \in 0 .. n}

\* original_matrix of the test
TestSymMatrix == <<<<1, 2, 3>>, <<2, 4, 5>>, <<3, 5, 6>>>>

\* two-dimensional vectors of at most MaxSymRows rows, and the test's
SymInputs ==
    UNION {[1 .. rows -> SymRows(MaxSymRows + 1)] : rows \in 0 .. MaxSymRows}
        \cup {TestSymMatrix}

InitSM ==
    /\ repr = "SymmetricMatrix"
    /\ am = AM_new(0) /\ al = AL_new(0) /\ ol = OL_new /\ aml = AML_new
    /\ panicked = FALSE
    /\ bfs = BFS_idle
    /\ uf = UF_new(0) /\ paren = Paren_idle
    /\ \/ \E size \in 0 .. MaxSymSize :
            sm = Some(SM_new(size)) /\ sm_input = None
       \/ \E matrix \in SymInputs :
            sm = None /\ sm_input = Some(matrix)

SMFromMatrix ==
    /\ sm = None /\ sm_input # None /\ ~panicked
    /\ LET r == SM_from_matrix(unwrap(sm_input))
       IN  sm' = r.g /\ panicked' = r.panic
    /\ UNCHANGED <<repr, am, al, ol, aml, bfs, sm_input, uf, paren>>

SMSet ==
    /\ sm # None /\ sm_input = None /\ ~panicked
    /\ \E row \in 0 .. unwrap(sm).size, col \in 0 .. unwrap(sm).size,
          value \in SymValues :
            LET r == SM_set(unwrap(sm), row, col, value)
            IN  sm' = Some(r.g) /\ panicked' = r.panic
    /\ UNCHANGED <<repr, am, al, ol, aml, bfs, sm_input, uf, paren>>

NextSM == SMFromMatrix \/ SMSet

SpecSM == InitSM /\ [][NextSM]_vars

-----------------------------------------------------------------------------
(* The client of UnionFind: it makes one with new and calls find and union *)
(* with every index of -1 .. size, the first and the last out of range.    *)

InitUF ==
    /\ repr = "UnionFind"
    /\ am = AM_new(0) /\ al = AL_new(0) /\ ol = OL_new /\ aml = AML_new
    /\ panicked = FALSE
    /\ bfs = BFS_idle
    /\ sm = None /\ sm_input = None
    /\ paren = Paren_idle
    /\ \E size \in 0 .. MaxUfSize : uf = UF_new(size)

UFFind ==
    /\ \E x \in -1 .. Len(uf) : uf' = UF_find(uf, x).g
    /\ UNCHANGED <<repr, am, al, ol, aml, panicked, bfs, sm, sm_input, paren>>

UFUnion ==
    /\ \E x \in -1 .. Len(uf), y \in -1 .. Len(uf) : uf' = UF_union(uf, x, y).g
    /\ UNCHANGED <<repr, am, al, ol, aml, panicked, bfs, sm, sm_input, paren>>

NextUF == UFFind \/ UFUnion

SpecUF == InitUF /\ [][NextUF]_vars

-----------------------------------------------------------------------------
(* The client of is_valid_parentheses: main, which calls it on "}", and    *)
(* callers handing it any string of at most MaxParenLen characters.        *)

\* the input of main
MainInput == <<"}">>

ParenInputs == UNION {[1 .. len -> Chars] : len \in 0 .. MaxParenLen}

InitParen ==
    /\ repr = "is_valid_parentheses"
    /\ am = AM_new(0) /\ al = AL_new(0) /\ ol = OL_new /\ aml = AML_new
    /\ panicked = FALSE
    /\ bfs = BFS_idle
    /\ sm = None /\ sm_input = None
    /\ uf = UF_new(0)
    /\ paren = Paren_idle

ParenCall ==
    /\ paren.pc = "idle"
    /\ \E s \in ParenInputs \cup {MainInput} : paren' = Paren_enter(s)
    /\ UNCHANGED <<repr, am, al, ol, aml, panicked, bfs, sm, sm_input, uf>>

ParenStep ==
    /\ paren.pc = "loop"
    /\ paren' = Paren_step(paren)
    /\ panicked' = (paren'.pc = "panicked")
    /\ UNCHANGED <<repr, am, al, ol, aml, bfs, sm, sm_input, uf>>

NextParen == ParenCall \/ ParenStep

SpecParen == InitParen /\ [][NextParen]_vars

-----------------------------------------------------------------------------
(* Vocabulary of the properties *)

\* in-range vertex indices of each instance
AMRange == 0 .. am.vertices - 1

ALRange == 0 .. al.vertices - 1

OLRange == 0 .. Len(ol.vertices) - 1

AMLRange == 0 .. Len(aml.vertices) - 1

\* s without the occurrences of x, order kept
Without(s, x) == SelectSeq(s, LAMBDA y : y # x)

Occurrences(s, x) == Cardinality({k \in 1 .. Len(s) : s[k] = x})

Elems(s) == {s[k] : k \in 1 .. Len(s)}

\* live slots of an arena
Live(arena) == {idx \in 0 .. Len(arena) - 1 : arena[idx + 1] # None}

\* The slot indices met by following `link` from cursor curr through arena.
\* The walk records an index that is outside the arena or emptied and stops
\* there; it gives up after fuel steps, so a cycle shows as a repeated index.
RECURSIVE OLChain(_, _, _, _)
OLChain(g, link, curr, fuel) ==
    IF curr = None \/ fuel = 0 THEN << >>
    ELSE LET idx == unwrap(curr)
         IN  IF idx >= Len(g.arcs) \/ g.arcs[idx + 1] = None
             THEN << idx >>
             ELSE << idx >> \o OLChain(g, link, unwrap(g.arcs[idx + 1])[link], fuel - 1)

\* out-chain of v: first_out, then tail_link
OLOutChain(g, v) == OLChain(g, "tail_link", g.vertices[v + 1].first_out, Len(g.arcs) + 1)

\* in-chain of v: first_in, then head_link
OLInChain(g, v) == OLChain(g, "head_link", g.vertices[v + 1].first_in, Len(g.arcs) + 1)

\* chain of v in the multilist: first_edge, then ilink where the record's
\* ivex is v and jlink otherwise
RECURSIVE AMLWalk(_, _, _, _)
AMLWalk(g, v, curr, fuel) ==
    IF curr = None \/ fuel = 0 THEN << >>
    ELSE LET idx == unwrap(curr)
         IN  IF idx >= Len(g.edges) \/ g.edges[idx + 1] = None
             THEN << idx >>
             ELSE LET e == unwrap(g.edges[idx + 1])
                  IN  << idx >> \o AMLWalk(g, v, IF e.ivex = v THEN e.ilink ELSE e.jlink,
                                           fuel - 1)

AMLChain(g, v) == AMLWalk(g, v, g.vertices[v + 1].first_edge, Len(g.edges) + 1)

\* live arcs from -> to of the orthogonal list, live edges joining i and j of the multilist
OLArcsBetween(g, from, to) ==
    {idx \in Live(g.arcs) : unwrap(g.arcs[idx + 1]).tail_vex = from
                            /\ unwrap(g.arcs[idx + 1]).head_vex = to}

AMLEdgesBetween(g, i, j) ==
    {idx \in Live(g.edges) : {unwrap(g.edges[idx + 1]).ivex, unwrap(g.edges[idx + 1]).jvex} = {i, j}}

-----------------------------------------------------------------------------
(* C1: in every reachable state of AdjacencyMatrix, AdjacencyList and       *)
(* OrthogonalList, for all in-range u, v and every weight w, get_edge(u,v)  *)
(* called right after add_edge(u,v,w) (Some(w) for the matrix) returns w,   *)
(* whether or not an edge (u,v) was present before the call.                *)
C1_AddThenGet ==
    /\ repr = "AdjacencyMatrix" =>
          \A u \in AMRange, v \in AMRange, w \in Weights :
              AM_get_edge(AM_add_edge(am, u, v, Some(w)).g, u, v) = Ok(Some(w))
    /\ repr = "AdjacencyList" =>
          \A u \in ALRange, v \in ALRange, w \in Weights :
              AL_get_edge(AL_add_edge(al, u, v, w).g, u, v) = Ok(Some(w))
    /\ repr = "OrthogonalList" =>
          \A u \in OLRange, v \in OLRange, w \in Weights :
              OL_get_edge(OL_add_edge(ol, u, v, w).g, u, v) = Some(w)

\* a state produced by add_edge(u,v,20) onto a present edge (u,v) of weight 10:
\* two live parallel arcs, the newer one heading the out-chain and answering get_edge
C1_Witness ==
    /\ repr = "OrthogonalList"
    /\ \E u \in OLRange, v \in OLRange :
          \E old \in OLArcsBetween(ol, u, v), new \in OLArcsBetween(ol, u, v) :
              /\ old < new
              /\ unwrap(ol.arcs[old + 1]).weight = 10
              /\ unwrap(ol.arcs[new + 1]).weight = 20
              /\ ol.vertices[u + 1].first_out = Some(new)
              /\ OL_get_edge(ol, u, v) = Some(20)

(* C2: in every reachable state of OrthogonalList, for all in-range from,   *)
(* to, get_edge(from,to) called right after remove_edge(from,to) returns    *)
(* None.                                                                    *)
C2_RemoveThenGetNone ==
    repr = "OrthogonalList" =>
        \A from \in OLRange, to \in OLRange :
            OL_get_edge(OL_remove_edge(ol, from, to), from, to) = None

(* C3: in every reachable state of AdjacencyMatrix and AdjacencyList, for   *)
(* all in-range u, v, get_edge(u,v) called right after remove_edge(u,v)     *)
(* returns None.                                                            *)
C3_RemoveThenGetNone ==
    /\ repr = "AdjacencyMatrix" =>
          \A u \in AMRange, v \in AMRange :
              AM_get_edge(AM_remove_edge(am, u, v).g, u, v) = Ok(None)
    /\ repr = "AdjacencyList" =>
          \A u \in ALRange, v \in ALRange :
              AL_get_edge(AL_remove_edge(al, u, v).g, u, v) = Ok(None)

\* a list of two entries (u,v), (u,x) on which remove_edge(u,v) has acted:
\* the head entry is gone, v reads None and x is still readable
C3_Witness ==
    /\ repr = "AdjacencyList"
    /\ \E u \in ALRange, v \in ALRange, x \in ALRange :
          /\ Len(al.adj[u + 1]) = 2
          /\ al.adj[u + 1][1][1] = v
          /\ al.adj[u + 1][2][1] = x
          /\ AL_get_edge(AL_remove_edge(al, u, v).g, u, v) = Ok(None)
          /\ AL_get_edge(AL_remove_edge(al, u, v).g, u, x) # Ok(None)

(* C4: in every reachable state of OrthogonalList each live arc with tail t *)
(* and head h occurs exactly once in the out-chain of t, exactly once in    *)
(* the in-chain of h, and in no other vertex's out-chain or in-chain.       *)
C4_ArcInItsTwoChains ==
    repr = "OrthogonalList" =>
        \A idx \in Live(ol.arcs) : \A v \in OLRange :
            LET arc == unwrap(ol.arcs[idx + 1])
            IN  /\ Occurrences(OLOutChain(ol, v), idx) = (IF v = arc.tail_vex THEN 1 ELSE 0)
                /\ Occurrences(OLInChain(ol, v), idx) = (IF v = arc.head_vex THEN 1 ELSE 0)

\* after a removal (an emptied slot), with two live parallel arcs and a live self-loop
C4_Witness ==
    /\ repr = "OrthogonalList"
    /\ Live(ol.arcs) # 0 .. Len(ol.arcs) - 1
    /\ \E a \in Live(ol.arcs), b \in Live(ol.arcs) :
          /\ a # b
          /\ unwrap(ol.arcs[a + 1]).tail_vex = unwrap(ol.arcs[b + 1]).tail_vex
          /\ unwrap(ol.arcs[a + 1]).head_vex = unwrap(ol.arcs[b + 1]).head_vex
    /\ \E c \in Live(ol.arcs) :
          unwrap(ol.arcs[c + 1]).tail_vex = unwrap(ol.arcs[c + 1]).head_vex

(* C5: in every reachable state of AdjacencyMultilist each live edge        *)
(* (ivex,jvex) occurs exactly once in the chain of ivex, exactly once in    *)
(* the chain of jvex, and in no other vertex's chain.                       *)
C5_EdgeInItsTwoChains ==
    repr = "AdjacencyMultilist" =>
        \A idx \in Live(aml.edges) : \A v \in AMLRange :
            LET e == unwrap(aml.edges[idx + 1])
            IN  Occurrences(AMLChain(aml, v), idx) = (IF v \in {e.ivex, e.jvex} THEN 1 ELSE 0)

\* after a removal, with two live edges joining the same vertices in the two stored orders
C5_Witness ==
    /\ repr = "AdjacencyMultilist"
    /\ Live(aml.edges) # 0 .. Len(aml.edges) - 1
    /\ \E a \in Live(aml.edges), b \in Live(aml.edges) :
          /\ unwrap(aml.edges[a + 1]).ivex = unwrap(aml.edges[b + 1]).jvex
          /\ unwrap(aml.edges[a + 1]).jvex = unwrap(aml.edges[b + 1]).ivex

(* C6: in every reachable state of OrthogonalList and AdjacencyMultilist    *)
(* every vertex head pointer and every link field of a live record is None  *)
(* or the index of a live slot of the arena, and every chain walked from    *)
(* its head meets live records only.                                        *)
C6_NoDanglingLink ==
    /\ repr = "OrthogonalList" =>
          /\ \A v \in OLRange :
                /\ Elems(ol.vertices[v + 1].first_out) \subseteq Live(ol.arcs)
                /\ Elems(ol.vertices[v + 1].first_in) \subseteq Live(ol.arcs)
                /\ Elems(OLOutChain(ol, v)) \subseteq Live(ol.arcs)
                /\ Elems(OLInChain(ol, v)) \subseteq Live(ol.arcs)
          /\ \A idx \in Live(ol.arcs) :
                /\ Elems(unwrap(ol.arcs[idx + 1]).tail_link) \subseteq Live(ol.arcs)
                /\ Elems(unwrap(ol.arcs[idx + 1]).head_link) \subseteq Live(ol.arcs)
    /\ repr = "AdjacencyMultilist" =>
          /\ \A v \in AMLRange :
                /\ Elems(aml.vertices[v + 1].first_edge) \subseteq Live(aml.edges)
                /\ Elems(AMLChain(aml, v)) \subseteq Live(aml.edges)
          /\ \A idx \in Live(aml.edges) :
                /\ Elems(unwrap(aml.edges[idx + 1]).ilink) \subseteq Live(aml.edges)
                /\ Elems(unwrap(aml.edges[idx + 1]).jlink) \subseteq Live(aml.edges)

\* a multilist in which a slot was emptied while a chain still holds two live records
C6_Witness ==
    /\ repr = "AdjacencyMultilist"
    /\ Live(aml.edges) # 0 .. Len(aml.edges) - 1
    /\ \E v \in AMLRange : Len(AMLChain(aml, v)) >= 2

\* first arc from -> to met on from's out-chain: the one remove_edge must take
OLFirstMatch(g, from, to) ==
    LET chain == OLOutChain(g, from)
        hits  == {k \in 1 .. Len(chain) : chain[k] \in OLArcsBetween(g, from, to)}
    IN  chain[CHOOSE k \in hits : \A m \in hits : k <= m]

(* C7: in every reachable state of OrthogonalList holding at least one arc  *)
(* from->to, remove_edge(from,to) takes the first match t of from's         *)
(* out-chain out of from's out-chain and out of to's in-chain, empties      *)
(* slot t and leaves every other slot's record identity (tail, head,        *)
(* weight) as it was, decrements edge_count by one, and leaves every chain  *)
(* equal to what it was without t (same arcs, same relative order).         *)
C7_RemoveSplicesBothChains ==
    repr = "OrthogonalList" =>
        \A from \in OLRange, to \in OLRange :
            OLArcsBetween(ol, from, to) # {} =>
                LET t == OLFirstMatch(ol, from, to)
                    g == OL_remove_edge(ol, from, to)
                IN  /\ Len(g.arcs) = Len(ol.arcs)
                    /\ Len(g.vertices) = Len(ol.vertices)
                    /\ Live(g.arcs) = Live(ol.arcs) \ {t}
                    /\ g.edge_count = ol.edge_count - 1
                    /\ \A idx \in Live(g.arcs) :
                          /\ unwrap(g.arcs[idx + 1]).tail_vex = unwrap(ol.arcs[idx + 1]).tail_vex
                          /\ unwrap(g.arcs[idx + 1]).head_vex = unwrap(ol.arcs[idx + 1]).head_vex
                          /\ unwrap(g.arcs[idx + 1]).weight = unwrap(ol.arcs[idx + 1]).weight
                    /\ \A v \in OLRange :
                          /\ OLOutChain(g, v) = Without(OLOutChain(ol, v), t)
                          /\ OLInChain(g, v) = Without(OLInChain(ol, v), t)

\* remove_edge(from,to) has acted on an arc that had a predecessor in from's
\* out-chain and a successor in to's in-chain, a parallel arc from->to staying behind
C7_Witness ==
    /\ repr = "OrthogonalList"
    /\ \E from \in OLRange, to \in OLRange :
          /\ Cardinality(OLArcsBetween(ol, from, to)) >= 2
          /\ LET t == OLFirstMatch(ol, from, to)
                 g == OL_remove_edge(ol, from, to)
             IN  /\ OLOutChain(ol, from)[1] # t
                 /\ OLInChain(ol, to)[Len(OLInChain(ol, to))] # t
                 /\ OLArcsBetween(g, from, to) # {}
                 /\ g.arcs[t + 1] = None
                 /\ t \notin Elems(OLOutChain(g, from)) \cup Elems(OLInChain(g, to))

\* first edge joining i and j met on i's chain
AMLFirstMatch(g, i, j) ==
    LET chain == AMLChain(g, i)
        hits  == {k \in 1 .. Len(chain) : chain[k] \in AMLEdgesBetween(g, i, j)}
    IN  chain[CHOOSE k \in hits : \A m \in hits : k <= m]

(* C8: in every reachable state of AdjacencyMultilist holding a live edge   *)
(* that joins i and j, stored as (i,j) or as (j,i), remove_edge(i,j) takes  *)
(* exactly one such record t (the first met on i's chain) out of i's chain  *)
(* and out of j's chain, empties slot t and leaves every other slot's       *)
(* record identity as it was, decrements edge_count by one, and leaves      *)
(* every chain equal to what it was without t.                              *)
C8_RemoveEitherOrder ==
    repr = "AdjacencyMultilist" =>
        \A i \in AMLRange, j \in AMLRange :
            AMLEdgesBetween(aml, i, j) # {} =>
                LET t == AMLFirstMatch(aml, i, j)
                    g == AML_remove_edge(aml, i, j)
                IN  /\ Len(g.edges) = Len(aml.edges)
                    /\ Len(g.vertices) = Len(aml.vertices)
                    /\ Live(g.edges) = Live(aml.edges) \ {t}
                    /\ g.edge_count = aml.edge_count - 1
                    /\ \A idx \in Live(g.edges) :
                          /\ unwrap(g.edges[idx + 1]).ivex = unwrap(aml.edges[idx + 1]).ivex
                          /\ unwrap(g.edges[idx + 1]).jvex = unwrap(aml.edges[idx + 1]).jvex
                          /\ unwrap(g.edges[idx + 1]).weight = unwrap(aml.edges[idx + 1]).weight
                    /\ \A v \in AMLRange :
                          AMLChain(g, v) = Without(AMLChain(aml, v), t)

\* remove_edge(i,j) has acted on an edge that was stored as (j,i) and was
\* neither first nor last on i's chain
C8_Witness ==
    /\ repr = "AdjacencyMultilist"
    /\ \E i \in AMLRange, j \in AMLRange :
          /\ AMLEdgesBetween(aml, i, j) # {}
          /\ LET t     == AMLFirstMatch(aml, i, j)
                 g     == AML_remove_edge(aml, i, j)
                 chain == AMLChain(aml, i)
             IN  /\ unwrap(aml.edges[t + 1]).ivex = j
                 /\ unwrap(aml.edges[t + 1]).jvex = i
                 /\ Len(chain) >= 3 /\ chain[1] # t /\ chain[Len(chain)] # t
                 /\ g.edges[t + 1] = None
                 /\ Len(AMLChain(g, i)) = Len(chain) - 1

\* indices met on the chains of all vertices
OLOutReach(g) == UNION {Elems(OLOutChain(g, v)) : v \in 0 .. Len(g.vertices) - 1}

OLInReach(g) == UNION {Elems(OLInChain(g, v)) : v \in 0 .. Len(g.vertices) - 1}

AMLReach(g) == UNION {Elems(AMLChain(g, v)) : v \in 0 .. Len(g.vertices) - 1}

(* C9: in every reachable state of OrthogonalList and AdjacencyMultilist,   *)
(* edge_count equals the number of non-empty arena slots, which equals the  *)
(* number of distinct records met on all out-chains, and on all in-chains   *)
(* (orthogonal list), on all first_edge chains (multilist).                 *)
C9_EdgeCountArena ==
    /\ repr = "OrthogonalList" =>
          /\ ol.edge_count = Cardinality(Live(ol.arcs))
          /\ ol.edge_count = Cardinality(OLOutReach(ol))
          /\ ol.edge_count = Cardinality(OLInReach(ol))
    /\ repr = "AdjacencyMultilist" =>
          /\ aml.edge_count = Cardinality(Live(aml.edges))
          /\ aml.edge_count = Cardinality(AMLReach(aml))

\* an orthogonal list after insertions and a deletion: the arena is longer than the count
C9_Witness ==
    /\ repr = "OrthogonalList"
    /\ ol.edge_count = 2
    /\ Len(ol.arcs) = 3

\* number of Some cells of the matrix, number of entries of all lists
AMPresent(g) ==
    Cardinality({c \in (1 .. g.vertices) \X (1 .. g.vertices) : g.matrix[c[1]][c[2]] # None})

RECURSIVE SumLen(_, _)
SumLen(lists, k) == IF k = 0 THEN 0 ELSE Len(lists[k]) + SumLen(lists, k - 1)

ALEntries(g) == SumLen(g.adj, g.vertices)

(* C10: in every reachable state the edges counter of AdjacencyMatrix       *)
(* equals the number of Some cells of the matrix, and the edges counter of  *)
(* AdjacencyList equals the total number of entries of the per-vertex       *)
(* lists.                                                                   *)
C10_EdgeCountDense ==
    /\ repr = "AdjacencyMatrix" => am.edges = AMPresent(am)
    /\ repr = "AdjacencyList" => al.edges = ALEntries(al)

\* a matrix holding edges on which an overwrite, a removal and add_edge(None)
\* leave the counter equal to the cells they leave
C10_Witness ==
    /\ repr = "AdjacencyMatrix"
    /\ am.edges = 2
    /\ \E u \in AMRange, v \in AMRange :
          /\ am.matrix[u + 1][v + 1] = Some(10)
          /\ AM_add_edge(am, u, v, Some(20)).g.edges = 2
          /\ AM_add_edge(am, u, v, None).g.edges = 1
          /\ AM_remove_edge(am, u, v).g.edges = 1
    /\ \E u \in AMRange, v \in AMRange :
          /\ am.matrix[u + 1][v + 1] = None
          /\ AM_add_edge(am, u, v, None).g.edges = 2
          /\ AM_remove_edge(am, u, v).g.edges = 2

-----------------------------------------------------------------------------
(* Vocabulary of the traversal properties: edges, reachability and hop     *)
(* distance are read off the stored cells and entries, not through          *)
(* first_neighbor / next_neighbor.                                         *)

BFSRange == 0 .. graph.vertices - 1

\* the traversed graph holds the edge u -> v
HasEdge(u, v) ==
    IF repr = "AdjacencyMatrix"
    THEN am.matrix[u + 1][v + 1] # None
    ELSE \E k \in 1 .. Len(al.adj[u + 1]) : al.adj[u + 1][k][1] = v

\* the vertices at most d hops away from start
RECURSIVE Within(_, _)
Within(start, d) ==
    IF d = 0 THEN {start}
    ELSE LET W == Within(start, d - 1)
         IN  W \cup {v \in BFSRange : \E u \in W : HasEdge(u, v)}

Reachable(start) == Within(start, graph.vertices)

\* hop distance of a reachable vertex
Distance(start, v) ==
    CHOOSE d \in 0 .. graph.vertices :
        v \in Within(start, d) /\ (d = 0 \/ v \notin Within(start, d - 1))

BFSEntered == bfs.pc \in {"outer", "inner", "done"}

(* C11: a breadth_first_search called with vertex_count equal to the graph's *)
(* vertex count never visits a vertex twice and never visits a vertex that  *)
(* is not reachable from start along directed edges, and when it has        *)
(* returned it has visited every reachable vertex: the visitor's order      *)
(* holds exactly the reachable vertices, each once, cycles and self-loops   *)
(* included.                                                                *)
C11_VisitsReachableOnce ==
    /\ BFSEntered =>
          /\ \A v \in BFSRange : Occurrences(bfs.order, v) <= 1
          /\ Elems(bfs.order) \subseteq Reachable(bfs.start)
    /\ bfs.pc = "done" =>
          /\ Elems(bfs.order) = Reachable(bfs.start)
          /\ Len(bfs.order) = Cardinality(Reachable(bfs.start))

\* a finished search on a graph with a self-loop on start, a cycle through
\* start and an unreachable vertex
C11_Witness ==
    /\ bfs.pc = "done"
    /\ HasEdge(bfs.start, bfs.start)
    /\ \E u \in BFSRange \ {bfs.start} : HasEdge(bfs.start, u) /\ HasEdge(u, bfs.start)
    /\ BFSRange \ Reachable(bfs.start) # {}
    /\ Len(bfs.order) = 2

\* position in the visitor's order of the vertex that discovered v: the
\* first visited vertex holding an edge to v
Discoverer(v) ==
    LET ks == {k \in 1 .. Len(bfs.order) : HasEdge(bfs.order[k], v)}
    IN  CHOOSE k \in ks : \A m \in ks : k <= m

(* C12: over an AdjacencyMatrix the vertices discovered from the same       *)
(* dequeued vertex are visited in increasing index order, and on the graph  *)
(* of 5 vertices with the edges (0,1), (0,2), (1,3), (1,4), (2,4) the       *)
(* search from 0 returns with the order [0, 1, 2, 3, 4].                    *)
C12_MatrixAscendingTieBreak ==
    /\ (repr = "AdjacencyMatrix" /\ BFSEntered) =>
          \A i \in 2 .. Len(bfs.order), j \in 2 .. Len(bfs.order) :
              (i < j /\ Discoverer(bfs.order[i]) = Discoverer(bfs.order[j]))
                  => bfs.order[i] < bfs.order[j]
    /\ (repr = "AdjacencyMatrix" /\ am = TestBfsMatrix /\ bfs.pc = "done"
            /\ bfs.start = 0) =>
          bfs.order = <<0, 1, 2, 3, 4>>

\* the search of test_bfs_adjacency_matrix has returned
C12_Witness ==
    /\ repr = "AdjacencyMatrix" /\ am = TestBfsMatrix
    /\ bfs.pc = "done" /\ bfs.start = 0 /\ bfs.vertex_count = 5
    /\ Len(bfs.order) = 5
    /\ Discoverer(1) = Discoverer(2) /\ Discoverer(3) = Discoverer(4)

\* the visitor's order only grows at its end, so position in it is time
OrderExtends ==
    /\ Len(bfs.order) <= Len(bfs'.order)
    /\ SubSeq(bfs'.order, 1, Len(bfs.order)) = bfs.order

\* start is the first vertex of the order, distances never decrease along
\* it, and when a vertex is visited every vertex nearer to start has been
\* visited before it
VisitedByDistance ==
    BFSEntered =>
        /\ bfs.order[1] = bfs.start
        /\ \A i \in 1 .. Len(bfs.order), j \in 1 .. Len(bfs.order) :
              i < j => Distance(bfs.start, bfs.order[i])
                           <= Distance(bfs.start, bfs.order[j])
        /\ \A j \in 1 .. Len(bfs.order) :
              \A u \in Reachable(bfs.start) :
                  Distance(bfs.start, u) < Distance(bfs.start, bfs.order[j])
                      => \E i \in 1 .. j - 1 : bfs.order[i] = u

(* C13: during a breadth_first_search over an AdjacencyMatrix or an         *)
(* AdjacencyList the start vertex is the first vertex visited and visits    *)
(* happen in non-decreasing hop distance from start: every visit is         *)
(* appended to the order, and a vertex at distance d + 1 is visited only    *)
(* after every vertex at distance d (or less) has been visited.            *)
C13_StartFirstThenByDistance ==
    [] VisitedByDistance /\ [][OrderExtends]_vars

\* a finished search that visited vertices at distances 0, 1 and 2, two of
\* them at the same distance
C13_Witness ==
    /\ bfs.pc = "done"
    /\ Len(bfs.order) >= 3
    /\ \E j \in 1 .. Len(bfs.order) : Distance(bfs.start, bfs.order[j]) = 2
    /\ \E i \in 1 .. Len(bfs.order), j \in 1 .. Len(bfs.order) :
          i # j /\ Distance(bfs.start, bfs.order[i]) = Distance(bfs.start, bfs.order[j])

BFSRunning == bfs.pc \in {"outer", "inner"}

\* every vertex is enqueued when it is visited and at no other time, so the
\* dequeues made so far are the visits less the vertices still queued
Dequeues == Len(bfs.order) - Len(bfs.queue)

\* each queued vertex is marked and queued once, the marked vertices are the
\* visited ones, the queue is the tail of the order, and no more than
\* vertex_count vertices have been dequeued
EnqueuedOnceWhenMarked ==
    BFSEntered =>
        /\ \A k \in 1 .. Len(bfs.queue) :
              /\ bfs.visited[bfs.queue[k] + 1]
              /\ Occurrences(bfs.queue, bfs.queue[k]) = 1
        /\ \A v \in 0 .. bfs.vertex_count - 1 :
              bfs.visited[v + 1] <=> Occurrences(bfs.order, v) = 1
        /\ bfs.queue = SubSeq(bfs.order, Dequeues + 1, Len(bfs.order))
        /\ Dequeues <= bfs.vertex_count
        /\ bfs.pc = "done" => Len(bfs.queue) = 0

\* the outer loop is left exactly when the queue is found empty
LoopEndsOnEmptyQueue ==
    (bfs.pc = "outer" /\ bfs'.pc # "outer")
        => (bfs'.pc = "done" <=> Len(bfs.queue) = 0)

(* C14: breadth_first_search terminates: a call that has entered its loops  *)
(* returns.  On the way each vertex is enqueued at most once and only when  *)
(* it has been marked visited, at most vertex_count vertices are dequeued,  *)
(* and the outer loop ends when, and only when, the queue is empty.         *)
C14_Terminates ==
    /\ [] EnqueuedOnceWhenMarked
    /\ [][LoopEndsOnEmptyQueue]_vars
    /\ BFSRunning ~> (bfs.pc = "done")

\* a search over a cycle through all three vertices of a graph has returned
\* after dequeueing each of them
C14_Witness ==
    /\ bfs.pc = "done"
    /\ bfs.vertex_count = 3
    /\ Dequeues = bfs.vertex_count
    /\ \E u \in BFSRange \ {bfs.start} : HasEdge(u, bfs.start)

\* start is a vertex of the graph and no edge leaves it
StartIsSink ==
    /\ bfs.start \in BFSRange
    /\ \A v \in BFSRange : ~HasEdge(bfs.start, v)

(* C15: a breadth_first_search from a vertex without outgoing edges (the    *)
(* only vertex of an edgeless graph, or a vertex with incoming edges only)  *)
(* visits that vertex and no other: from the call on the order is [start],  *)
(* the call does not abort, and it returns with an empty queue.             *)
C15_SinkVisitsOnlyItself ==
    (bfs.pc # "idle" /\ StartIsSink) =>
        /\ bfs.pc # "panicked" /\ ~panicked
        /\ bfs.order = <<bfs.start>>
        /\ bfs.pc = "done" => bfs.queue = << >>
        /\ bfs.pc = "outer" => bfs.queue \in {<<bfs.start>>, << >>}
        /\ bfs.pc = "inner" => bfs.neighbor = None

\* a search from a vertex that has incoming edges only has returned
C15_Witness ==
    /\ bfs.pc = "done" /\ StartIsSink
    /\ \E u \in BFSRange \ {bfs.start} : HasEdge(u, bfs.start)
    /\ bfs.order = <<bfs.start>>

\* the AdjacencyMatrix holding the edges of the AdjacencyList g, added row
\* by row with add_edge
RECURSIVE MatrixAddList(_, _, _)
MatrixAddList(m, from, list) ==
    IF list = << >> THEN m
    ELSE MatrixAddList(AM_add_edge(m, from, Head(list)[1], Some(Head(list)[2])).g,
                       from, Tail(list))

RECURSIVE MatrixAddRows(_, _, _)
MatrixAddRows(m, g, v) ==
    IF v >= g.vertices THEN m
    ELSE MatrixAddRows(MatrixAddList(m, v, g.adj[v + 1]), g, v + 1)

MatrixOf(g) == MatrixAddRows(AM_new(g.vertices), g, 0)

\* every per-vertex list of g is in ascending target order
ListsAscending(g) ==
    \A v \in 1 .. g.vertices :
        \A k \in 1 .. Len(g.adj[v]) - 1 : g.adj[v][k][1] < g.adj[v][k + 1][1]

\* the search over the matrix of the same edges, from the same start
MatrixSearch ==
    breadth_first_search("AdjacencyMatrix", MatrixOf(al), bfs.start, al.vertices)

(* C16: when a breadth_first_search over an AdjacencyList has returned, the *)
(* search from the same start over the AdjacencyMatrix holding the same     *)
(* edges returns too and has visited the same set of vertices, in whatever  *)
(* order the list's edges were inserted; when every per-vertex list is in   *)
(* ascending target order the two visit sequences are identical.            *)
C16_MatrixAndListAgree ==
    (repr = "AdjacencyList" /\ bfs.pc = "done") =>
        /\ MatrixSearch.pc = "done"
        /\ Elems(MatrixSearch.order) = Elems(bfs.order)
        /\ Len(MatrixSearch.order) = Len(bfs.order)
        /\ ListsAscending(al) => MatrixSearch.order = bfs.order

\* a list filled out of ascending order: the two searches have visited the
\* same vertices in different sequences
C16_Witness ==
    /\ repr = "AdjacencyList" /\ bfs.pc = "done"
    /\ ~ListsAscending(al)
    /\ Elems(MatrixSearch.order) = Elems(bfs.order)
    /\ MatrixSearch.order # bfs.order

\* the neighbors first_neighbor / next_neighbor hand out for vertex v, in
\* the order they are handed out; the walk stops after fuel answers
RECURSIVE NeighborWalk(_, _, _, _, _)
NeighborWalk(kind, g, v, cursor, fuel) ==
    IF ~is_some(cursor) \/ fuel = 0 THEN << >>
    ELSE <<unwrap(cursor)>>
         \o NeighborWalk(kind, g, v, next_neighbor(kind, g, v, unwrap(cursor)), fuel - 1)

Neighbors(kind, g, v) ==
    NeighborWalk(kind, g, v, first_neighbor(kind, g, v), g.vertices + 1)

\* the columns of row v that hold an edge
AMColumns(g, v) == {j \in 0 .. g.vertices - 1 : g.matrix[v + 1][j + 1] # None}

\* Some(least element of S), None for the empty set
Least(S) == IF S = {} THEN None ELSE Some(CHOOSE j \in S : \A k \in S : j <= k)

(* C17: for every vertex v of an AdjacencyMatrix, first_neighbor(v) is the  *)
(* smallest column j holding an edge v -> j, next_neighbor(v, cur) is the   *)
(* smallest such column above cur, each absent when there is none, and the  *)
(* iteration first_neighbor, next_neighbor, ... hands out every neighbor of *)
(* v exactly once, in strictly increasing order.                            *)
C17_MatrixNeighborsAscending ==
    repr = "AdjacencyMatrix" =>
        \A v \in 0 .. am.vertices - 1 :
            /\ AM_first_neighbor(am, v) = Least(AMColumns(am, v))
            /\ \A cur \in 0 .. am.vertices - 1 :
                  AM_next_neighbor(am, v, cur)
                      = Least({j \in AMColumns(am, v) : j > cur})
            /\ LET walk == Neighbors("AdjacencyMatrix", am, v)
               IN  /\ Elems(walk) = AMColumns(am, v)
                   /\ Len(walk) = Cardinality(AMColumns(am, v))
                   /\ \A k \in 1 .. Len(walk) - 1 : walk[k] < walk[k + 1]

\* a row with edges in its first and third column and none in between
C17_Witness ==
    /\ repr = "AdjacencyMatrix" /\ am.vertices >= 3
    /\ \E v \in 0 .. am.vertices - 1 :
          /\ AMColumns(am, v) = {0, 2}
          /\ AM_first_neighbor(am, v) = Some(0)
          /\ AM_next_neighbor(am, v, 0) = Some(2)
          /\ AM_next_neighbor(am, v, 1) = Some(2)
          /\ AM_next_neighbor(am, v, 2) = None
          /\ Neighbors("AdjacencyMatrix", am, v) = <<0, 2>>

\* the targets of the entries of adj[v], in list order
Targets(g, v) == [k \in 1 .. Len(g.adj[v + 1]) |-> g.adj[v + 1][k][1]]

\* Some(the element following the first occurrence of x in s), None when x
\* is the last element of s or does not occur in it
Following(s, x) ==
    LET ks == {k \in 1 .. Len(s) : s[k] = x}
    IN  IF ks = {} THEN None
        ELSE LET k == CHOOSE m \in ks : \A n \in ks : m <= n
             IN  IF k < Len(s) THEN Some(s[k + 1]) ELSE None

(* C18: for every vertex v of an AdjacencyList, first_neighbor(v) is the    *)
(* target of the head of v's list, next_neighbor(v, cur) is the target of   *)
(* the entry following cur's, absent when cur is the last entry or not in   *)
(* the list, and the iteration hands out every neighbor once, in list       *)
(* order.  List order is append order of the present edges: add_edge of an  *)
(* absent edge appends its target, add_edge of a present edge leaves the    *)
(* order as it is, remove_edge takes the target out and keeps the order of  *)
(* the others.                                                              *)
C18_ListNeighborsInListOrder ==
    repr = "AdjacencyList" =>
        \A v \in 0 .. al.vertices - 1 :
            LET ts == Targets(al, v)
            IN  /\ AL_first_neighbor(al, v) = IF ts = << >> THEN None ELSE Some(ts[1])
                /\ \A cur \in 0 .. al.vertices :
                      AL_next_neighbor(al, v, cur) = Following(ts, cur)
                /\ Neighbors("AdjacencyList", al, v) = ts
                /\ \A t \in 0 .. al.vertices - 1 : Occurrences(ts, t) <= 1
                /\ \A t \in 0 .. al.vertices - 1, w \in Weights :
                      Neighbors("AdjacencyList", AL_add_edge(al, v, t, w).g, v)
                          = IF t \in Elems(ts) THEN ts ELSE Append(ts, t)
                /\ \A t \in 0 .. al.vertices - 1 :
                      Neighbors("AdjacencyList", AL_remove_edge(al, v, t).g, v)
                          = Without(ts, t)

\* a list of three entries out of ascending order: the iteration follows the
\* list, overwriting the head keeps it, removing the middle entry closes up
C18_Witness ==
    /\ repr = "AdjacencyList"
    /\ \E v \in 0 .. al.vertices - 1 :
          LET ts == Targets(al, v)
          IN  /\ Len(ts) = 3 /\ ts[1] > ts[2]
              /\ Neighbors("AdjacencyList", al, v) = ts
              /\ AL_next_neighbor(al, v, ts[3]) = None
              /\ Neighbors("AdjacencyList", AL_add_edge(al, v, ts[1], 20).g, v) = ts
              /\ Neighbors("AdjacencyList", AL_remove_edge(al, v, ts[2]).g, v)
                    = <<ts[1], ts[3]>>

-----------------------------------------------------------------------------
(* C19: add_edge of an edge that is already present, on an AdjacencyMatrix  *)
(* (with a weight) and on an AdjacencyList, replaces the weight and changes *)
(* nothing else: the edge count, the other cells, the length and the order  *)
(* of the list stay as they were; and no per-vertex list of an             *)
(* AdjacencyList ever holds two entries with the same target.              *)
C19_OverwriteKeepsCount ==
    /\ (repr = "AdjacencyMatrix" /\ ~panicked) =>
          \A u \in AMRange, v \in AMRange, w \in Weights :
              am.matrix[u + 1][v + 1] # None =>
                  LET r == AM_add_edge(am, u, v, Some(w))
                  IN  /\ ~r.panic
                      /\ r.g.edges = am.edges
                      /\ r.g.matrix[u + 1][v + 1] = Some(w)
                      /\ r.g = [am EXCEPT !.matrix[u + 1][v + 1] = Some(w)]
    /\ (repr = "AdjacencyList" /\ ~panicked) =>
          /\ \A u \in ALRange, v \in ALRange :
                Occurrences(Targets(al, u), v) <= 1
          /\ \A u \in ALRange, v \in ALRange, w \in Weights :
                v \in Elems(Targets(al, u)) =>
                    LET r == AL_add_edge(al, u, v, w)
                    IN  /\ ~r.panic
                        /\ r.g.edges = al.edges
                        /\ Targets(r.g, u) = Targets(al, u)
                        /\ AL_get_edge(r.g, u, v) = Ok(Some(w))
                        /\ \A k \in 1 .. Len(al.adj[u + 1]) :
                              al.adj[u + 1][k][1] # v
                                  => r.g.adj[u + 1][k] = al.adj[u + 1][k]
                        /\ \A x \in ALRange \ {u} : r.g.adj[x + 1] = al.adj[x + 1]

\* a list of two entries whose second entry is given another weight
C19_Witness ==
    /\ repr = "AdjacencyList" /\ ~panicked /\ al.edges = 2
    /\ \E u \in ALRange :
          /\ Len(al.adj[u + 1]) = 2
          /\ al.adj[u + 1][2][2] = 10
          /\ LET r == AL_add_edge(al, u, al.adj[u + 1][2][1], 20)
             IN  /\ r.g.edges = 2
                 /\ r.g.adj[u + 1][2][2] = 20
                 /\ r.g.adj[u + 1][1] = al.adj[u + 1][1]

(* C20: on an AdjacencyMatrix add_edge with an absent weight removes a      *)
(* present edge and decrements the count, and changes nothing when the      *)
(* edge is absent; add_edge with a weight stores it and increments the      *)
(* count only when the edge was absent; remove_edge clears the cell and     *)
(* decrements only when the edge was present.  The count moves by one       *)
(* exactly when the presence of the edge changes and never falls below 0.   *)
C20_MatrixCountFollowsPresence ==
    (repr = "AdjacencyMatrix" /\ ~panicked) =>
        /\ am.edges >= 0
        /\ \A u \in AMRange, v \in AMRange :
              LET present == am.matrix[u + 1][v + 1] # None
                  cleared == [am EXCEPT !.matrix[u + 1][v + 1] = None,
                                        !.edges = @ - 1]
                  rn      == AM_add_edge(am, u, v, None)
                  rr      == AM_remove_edge(am, u, v)
              IN  /\ ~rn.panic /\ ~rr.panic
                  /\ rn.g = IF present THEN cleared ELSE am
                  /\ rr.g = IF present THEN cleared ELSE am
                  /\ rn.g.edges >= 0 /\ rr.g.edges >= 0
                  /\ \A w \in Weights :
                        LET rw == AM_add_edge(am, u, v, Some(w))
                        IN  /\ ~rw.panic
                            /\ rw.g = [am EXCEPT !.matrix[u + 1][v + 1] = Some(w),
                                                 !.edges = IF present THEN @ ELSE @ + 1]

\* a matrix holding one edge: clearing it with an absent weight or with
\* remove_edge brings the count to 0, doing so to an absent edge changes
\* nothing
C20_Witness ==
    /\ repr = "AdjacencyMatrix" /\ ~panicked /\ am.edges = 1
    /\ \E u \in AMRange, v \in AMRange :
          /\ am.matrix[u + 1][v + 1] # None
          /\ AM_add_edge(am, u, v, None).g.edges = 0
          /\ AM_remove_edge(am, u, v).g.edges = 0
          /\ AM_add_edge(am, u, v, Some(20)).g.edges = 1
    /\ \E u \in AMRange, v \in AMRange :
          /\ am.matrix[u + 1][v + 1] = None
          /\ AM_add_edge(am, u, v, None).g = am
          /\ AM_remove_edge(am, u, v).g = am
          /\ AM_add_edge(am, u, v, Some(10)).g.edges = 2

-----------------------------------------------------------------------------
(* Vocabulary of the SymmetricMatrix properties *)

SMRange == 0 .. unwrap(sm).size - 1

\* the two-dimensional vector is square / equal to its transpose
IsSquare(matrix) == \A k \in 1 .. Len(matrix) : Len(matrix[k]) = Len(matrix)

IsSymmetric(matrix) ==
    /\ IsSquare(matrix)
    /\ \A i \in 1 .. Len(matrix), j \in 1 .. Len(matrix) : matrix[i][j] = matrix[j][i]

(* C21: in every state of a SymmetricMatrix of size n, whatever set calls   *)
(* were made (and also when it was built by from_matrix), get(r, c) and     *)
(* get(c, r) return the same value for all r, c < n, and after set(r, c, v) *)
(* both get(r, c) and get(c, r) return v.                                   *)
C21_SymmetricReads ==
    (sm # None /\ ~panicked) =>
        \A r \in SMRange, c \in SMRange :
            /\ ~SM_get(unwrap(sm), r, c).panic
            /\ SM_get(unwrap(sm), r, c) = SM_get(unwrap(sm), c, r)
            /\ \A v \in SymValues :
                  LET w == SM_set(unwrap(sm), r, c, v)
                  IN  /\ ~w.panic
                      /\ SM_get(w.g, r, c) = Ok(v)
                      /\ SM_get(w.g, c, r) = Ok(v)

\* a matrix of size 3 written through set: the cells (0,2) and (1,2) hold
\* different values, and each reads the same from the other side
C21_Witness ==
    /\ sm # None /\ sm_input = None /\ ~panicked
    /\ unwrap(sm).size = 3
    /\ SM_get(unwrap(sm), 0, 2) = Ok(1) /\ SM_get(unwrap(sm), 2, 0) = Ok(1)
    /\ SM_get(unwrap(sm), 1, 2) = Ok(2) /\ SM_get(unwrap(sm), 2, 1) = Ok(2)
    /\ SM_get(unwrap(sm), 0, 1) = Ok(0)

(* C22: for every square matrix M equal to its transpose, the empty matrix  *)
(* included, from_matrix(M) does not abort and to_matrix of the result is   *)
(* M.                                                                       *)
C22_RoundTrip ==
    (sm_input # None /\ IsSymmetric(unwrap(sm_input))) =>
        /\ ~panicked
        /\ sm # None => SM_to_matrix(unwrap(sm)) = unwrap(sm_input)

\* the matrix of the test has been through from_matrix and reads back equal
C22_Witness ==
    /\ sm_input = Some(TestSymMatrix) /\ sm # None /\ ~panicked
    /\ unwrap(sm).size = 3
    /\ unwrap(sm).elements = <<1, 2, 4, 3, 5, 6>>
    /\ SM_to_matrix(unwrap(sm)) = TestSymMatrix

-----------------------------------------------------------------------------
(* C23: in every representation get_vertex_data with an index that is not   *)
(* below the vertex count aborts; it returns neither a value nor an         *)
(* absence.  (OrthogonalList and AdjacencyMultilist answer through          *)
(* Vec::get, which returns an absence.)                                     *)
C23_GetVertexDataAborts ==
    ~panicked =>
        /\ repr = "AdjacencyMatrix" =>
              \A index \in Indices :
                  index >= am.vertices => AM_get_vertex_data(am, index).panic
        /\ repr = "AdjacencyList" =>
              \A index \in Indices :
                  index >= al.vertices => AL_get_vertex_data(al, index).panic
        /\ repr = "OrthogonalList" =>
              \A index \in Indices :
                  index >= Len(ol.vertices) => Ok(OL_get_vertex_data(ol, index)).panic
        /\ repr = "AdjacencyMultilist" =>
              \A index \in MultilistIndices :
                  index >= Len(aml.vertices) => Ok(AML_get_vertex_data(aml, index)).panic

\* every add_edge with an index out of range, and every set_vertex_data of
\* the matrix and the list with such an index, panics and returns the
\* struct it was given
OutOfRangeWritesNothing ==
    /\ repr = "AdjacencyMatrix" =>
          /\ \A from \in Indices, to \in Indices, weight \in OptWeights :
                (from >= am.vertices \/ to >= am.vertices) =>
                    LET r == AM_add_edge(am, from, to, weight)
                    IN  r.panic /\ r.g = am
          /\ \A vertex \in Indices, data \in Data :
                vertex >= am.vertices =>
                    LET r == AM_set_vertex_data(am, vertex, data)
                    IN  r.panic /\ r.g = am
    /\ repr = "AdjacencyList" =>
          /\ \A from \in Indices, to \in Indices, weight \in Weights :
                (from >= al.vertices \/ to >= al.vertices) =>
                    LET r == AL_add_edge(al, from, to, weight)
                    IN  r.panic /\ r.g = al
          /\ \A vertex \in Indices, data \in Data :
                vertex >= al.vertices =>
                    LET r == AL_set_vertex_data(al, vertex, data)
                    IN  r.panic /\ r.g = al
    /\ repr = "OrthogonalList" =>
          \A from \in Indices, to \in Indices, weight \in Weights :
              (from >= Len(ol.vertices) \/ to >= Len(ol.vertices)) =>
                  LET r == OL_add_edge(ol, from, to, weight)
                  IN  r.panic /\ r.g = ol
    /\ repr = "AdjacencyMultilist" =>
          \A i \in MultilistIndices, j \in MultilistIndices, weight \in MultilistWeights :
              (i >= Len(aml.vertices) \/ j >= Len(aml.vertices)) =>
                  LET r == AML_add_edge(aml, i, j, weight)
                  IN  r.panic /\ r.g = aml

\* the step on which a call aborts leaves all four structs as they were
AbortWritesNothing ==
    (~panicked /\ panicked') => (am' = am /\ al' = al /\ ol' = ol /\ aml' = aml)

(* C24: add_edge with from or to not below the vertex count aborts in all   *)
(* four representations, set_vertex_data with such a vertex aborts in       *)
(* AdjacencyMatrix and AdjacencyList, and the abort comes before any field  *)
(* is written: edge counter, cells, lists, chain heads, links and arena are *)
(* as before the call.                                                      *)
C24_OutOfRangeAbortsUnchanged ==
    [] OutOfRangeWritesNothing /\ [][AbortWritesNothing]_vars

\* an add_edge with an index out of range has aborted on an orthogonal list
\* that holds two arcs
C24_Witness ==
    /\ panicked /\ repr = "OrthogonalList"
    /\ ol.edge_count = 2 /\ Len(ol.arcs) = 2
    /\ OL_add_edge(ol, 0, Len(ol.vertices), 10).panic

(* C25: remove_edge of an edge that is not present returns without abort    *)
(* and leaves the whole struct as it was, and get_edge of it returns None   *)
(* without abort: for in-range endpoints in every representation that has   *)
(* the operation, and in OrthogonalList (get_edge, remove_edge) and         *)
(* AdjacencyMultilist (remove_edge) for out-of-range endpoints too.         *)
C25_AbsentEdgeNoOp ==
    /\ repr = "AdjacencyMatrix" =>
          \A u \in AMRange, v \in AMRange :
              am.matrix[u + 1][v + 1] = None =>
                  /\ AM_remove_edge(am, u, v) = [panic |-> FALSE, g |-> am]
                  /\ AM_get_edge(am, u, v) = Ok(None)
    /\ repr = "AdjacencyList" =>
          \A u \in ALRange, v \in ALRange :
              v \notin Elems(Targets(al, u)) =>
                  /\ AL_remove_edge(al, u, v) = [panic |-> FALSE, g |-> al]
                  /\ AL_get_edge(al, u, v) = Ok(None)
    /\ repr = "OrthogonalList" =>
          \A from \in Indices, to \in Indices :
              OLArcsBetween(ol, from, to) = {} =>
                  /\ OL_remove_edge(ol, from, to) = ol
                  /\ OL_get_edge(ol, from, to) = None
    /\ repr = "AdjacencyMultilist" =>
          \A i \in MultilistIndices, j \in MultilistIndices :
              AMLEdgesBetween(aml, i, j) = {} =>
                  AML_remove_edge(aml, i, j) = aml

\* an orthogonal list holding an arc to -> from and none from -> to, and
\* another arc on from's out-chain: remove_edge(from, to) changes nothing
C25_Witness ==
    /\ repr = "OrthogonalList" /\ ~panicked
    /\ \E from \in OLRange, to \in OLRange :
          /\ from # to
          /\ OLArcsBetween(ol, from, to) = {}
          /\ OLArcsBetween(ol, to, from) # {}
          /\ OLOutChain(ol, from) # << >>
          /\ OL_remove_edge(ol, from, to) = ol
          /\ OL_get_edge(ol, from, to) = None
          /\ OL_remove_edge(ol, from, Len(ol.vertices)) = ol

(* C26: AdjacencyMultilist.add_edge(i, i, w) with i in range panics with    *)
(* the self-loop message and leaves the struct unchanged, so no live edge   *)
(* has ivex = jvex; with i out of range the panic is the bounds violation.  *)
C26_SelfLoopRejected ==
    repr = "AdjacencyMultilist" =>
        /\ \A idx \in Live(aml.edges) :
              unwrap(aml.edges[idx + 1]).ivex # unwrap(aml.edges[idx + 1]).jvex
        /\ \A i \in MultilistIndices, weight \in MultilistWeights :
              LET r == AML_add_edge(aml, i, i, weight)
              IN  /\ r.panic
                  /\ r.g = aml
                  /\ r.msg = IF i < Len(aml.vertices) THEN AML_self_loop
                             ELSE AML_out_of_bounds

\* a multilist of two vertices joined by an edge: add_edge(0, 0) is rejected
\* as a self-loop, add_edge(2, 2) as out of bounds
C26_Witness ==
    /\ repr = "AdjacencyMultilist" /\ ~panicked
    /\ Len(aml.vertices) = 2 /\ aml.edge_count >= 1
    /\ AML_add_edge(aml, 0, 0, 10).msg = AML_self_loop
    /\ AML_add_edge(aml, 2, 2, 10).msg = AML_out_of_bounds
    /\ AML_add_edge(aml, 0, 0, 10).g = aml

-----------------------------------------------------------------------------
(* C27: SymmetricMatrix::from_matrix aborts exactly when its input is not   *)
(* square, that is when some row's length differs from the number of rows;  *)
(* an aborted call has built no matrix, and a call on a square input (the   *)
(* empty one included) returns a matrix of that size.                       *)
C27_FromMatrixNeedsSquare ==
    sm_input # None =>
        /\ SM_from_matrix(unwrap(sm_input)).panic <=> ~IsSquare(unwrap(sm_input))
        /\ panicked => (~IsSquare(unwrap(sm_input)) /\ sm = None)
        /\ sm # None => /\ IsSquare(unwrap(sm_input)) /\ ~panicked
                        /\ unwrap(sm).size = Len(unwrap(sm_input))

\* from_matrix has aborted on an input of two rows whose first row has the
\* right length and whose second row is too long
C27_Witness ==
    /\ sm_input # None /\ panicked /\ sm = None
    /\ Len(unwrap(sm_input)) = 2
    /\ Len(unwrap(sm_input)[1]) = 2
    /\ Len(unwrap(sm_input)[2]) = 3

-----------------------------------------------------------------------------
\* add_vertex returns the number of vertices there were, appends one vertex
\* with empty chains and touches nothing else
AddVertexAppends ==
    /\ repr = "OrthogonalList" =>
          \A data \in Data :
              LET r == OL_add_vertex(ol, data)
              IN  /\ r.index = Len(ol.vertices)
                  /\ r.g = [ol EXCEPT !.vertices =
                                Append(ol.vertices, OLVertex(data, None, None))]
                  /\ OLOutChain(r.g, r.index) = << >>
                  /\ OLInChain(r.g, r.index) = << >>
                  /\ \A v \in OLRange : r.g.vertices[v + 1] = ol.vertices[v + 1]
                  /\ r.g.arcs = ol.arcs /\ r.g.edge_count = ol.edge_count
    /\ repr = "AdjacencyMultilist" =>
          \A data \in Data :
              LET r == AML_add_vertex(aml, data)
              IN  /\ r.index = Len(aml.vertices)
                  /\ r.g = [aml EXCEPT !.vertices =
                                Append(aml.vertices, AMLVertex(data, None))]
                  /\ AMLChain(r.g, r.index) = << >>
                  /\ \A v \in AMLRange : r.g.vertices[v + 1] = aml.vertices[v + 1]
                  /\ r.g.edges = aml.edges /\ r.g.edge_count = aml.edge_count

\* a step keeps the vertices there are, with their payloads, at their
\* indices, and adds at most one at the end; a step that adds one leaves the
\* arena, the counter and every existing vertex as they were
VerticesOnlyAppended ==
    /\ Len(ol'.vertices) \in {Len(ol.vertices), Len(ol.vertices) + 1}
    /\ \A v \in OLRange : ol'.vertices[v + 1].data = ol.vertices[v + 1].data
    /\ Len(ol'.vertices) # Len(ol.vertices) =>
          /\ ol'.arcs = ol.arcs /\ ol'.edge_count = ol.edge_count
          /\ SubSeq(ol'.vertices, 1, Len(ol.vertices)) = ol.vertices
          /\ ol'.vertices[Len(ol'.vertices)].first_in = None
          /\ ol'.vertices[Len(ol'.vertices)].first_out = None
    /\ Len(aml'.vertices) \in {Len(aml.vertices), Len(aml.vertices) + 1}
    /\ \A v \in AMLRange : aml'.vertices[v + 1].data = aml.vertices[v + 1].data
    /\ Len(aml'.vertices) # Len(aml.vertices) =>
          /\ aml'.edges = aml.edges /\ aml'.edge_count = aml.edge_count
          /\ SubSeq(aml'.vertices, 1, Len(aml.vertices)) = aml.vertices
          /\ aml'.vertices[Len(aml'.vertices)].first_edge = None

(* C28: in OrthogonalList and AdjacencyMultilist the k-th add_vertex call   *)
(* (k = 0, 1, 2, ...) returns k: it returns the vertex count, which starts  *)
(* at 0 and which no step changes except add_vertex, by one.  Indices are   *)
(* never reused and the count never decreases; the new vertex has empty     *)
(* chains, and the existing chain heads, the arcs or edges and the edge     *)
(* counter are as before.                                                   *)
C28_AddVertexDenseIndices ==
    [] AddVertexAppends /\ [][VerticesOnlyAppended]_vars

\* a multilist of three vertices, the first two joined by two edges and the
\* third with an empty chain: the next add_vertex returns 3
C28_Witness ==
    /\ repr = "AdjacencyMultilist" /\ ~panicked
    /\ Len(aml.vertices) = 3 /\ aml.edge_count = 2
    /\ aml.vertices[3].first_edge = None
    /\ aml.vertices[1].first_edge # None
    /\ AML_add_vertex(aml, "V").index = 3

-----------------------------------------------------------------------------
\* s is strictly decreasing
Decreasing(s) == \A k \in 1 .. Len(s) - 1 : s[k] > s[k + 1]

(* C29: add_edge in OrthogonalList and AdjacencyMultilist, for in-range     *)
(* endpoints (distinct ones in the multilist), always stores a new record   *)
(* in a new slot, whether or not a record between the same endpoints        *)
(* exists, puts it at the head of the two chains it belongs to with the     *)
(* former chains following it, leaves every other chain and record as it    *)
(* was, and increments edge_count by one.  Slots are handed out in          *)
(* increasing order, so every chain lists its live records most recently    *)
(* added first.                                                             *)
C29_AddEdgePrependsNewRecord ==
    /\ repr = "OrthogonalList" =>
          /\ \A v \in OLRange :
                Decreasing(OLOutChain(ol, v)) /\ Decreasing(OLInChain(ol, v))
          /\ \A from \in OLRange, to \in OLRange, weight \in Weights :
                LET r   == OL_add_edge(ol, from, to, weight)
                    new == Len(ol.arcs)
                IN  /\ ~r.panic
                    /\ r.g.arcs[new + 1]
                          = Some(OLArc(from, to, ol.vertices[to + 1].first_in,
                                       ol.vertices[from + 1].first_out, weight))
                    /\ SubSeq(r.g.arcs, 1, new) = ol.arcs
                    /\ Len(r.g.arcs) = new + 1
                    /\ r.g.edge_count = ol.edge_count + 1
                    /\ Cardinality(OLArcsBetween(r.g, from, to))
                          = Cardinality(OLArcsBetween(ol, from, to)) + 1
                    /\ \A v \in OLRange :
                          /\ OLOutChain(r.g, v)
                                = IF v = from THEN <<new>> \o OLOutChain(ol, v)
                                  ELSE OLOutChain(ol, v)
                          /\ OLInChain(r.g, v)
                                = IF v = to THEN <<new>> \o OLInChain(ol, v)
                                  ELSE OLInChain(ol, v)
    /\ repr = "AdjacencyMultilist" =>
          /\ \A v \in AMLRange : Decreasing(AMLChain(aml, v))
          /\ \A i \in AMLRange, j \in AMLRange, weight \in MultilistWeights :
                i # j =>
                    LET r   == AML_add_edge(aml, i, j, weight)
                        new == Len(aml.edges)
                    IN  /\ ~r.panic
                        /\ r.g.edges[new + 1]
                              = Some(AMLEdge(i, j, aml.vertices[i + 1].first_edge,
                                             aml.vertices[j + 1].first_edge, weight))
                        /\ SubSeq(r.g.edges, 1, new) = aml.edges
                        /\ Len(r.g.edges) = new + 1
                        /\ r.g.edge_count = aml.edge_count + 1
                        /\ Cardinality(AMLEdgesBetween(r.g, i, j))
                              = Cardinality(AMLEdgesBetween(aml, i, j)) + 1
                        /\ \A v \in AMLRange :
                              AMLChain(r.g, v)
                                  = IF v \in {i, j} THEN <<new>> \o AMLChain(aml, v)
                                    ELSE AMLChain(aml, v)

\* a multilist in which add_edge was called twice for the same two vertices:
\* two live records, the newer one heading both chains, the older following
C29_Witness ==
    /\ repr = "AdjacencyMultilist" /\ ~panicked
    /\ aml.edge_count = 2
    /\ \E i \in AMLRange, j \in AMLRange :
          /\ i # j
          /\ Cardinality(AMLEdgesBetween(aml, i, j)) = 2
          /\ Len(AMLChain(aml, i)) = 2
          /\ AMLChain(aml, i) = AMLChain(aml, j)
          /\ AMLChain(aml, i)[1] > AMLChain(aml, i)[2]
          /\ Len(AMLChain(AML_add_edge(aml, i, j, 10).g, j)) = 3

\* the live arc from -> to added last: slots are handed out in increasing
\* order, so it is the one with the largest index
OLNewestArc(g, from, to) ==
    CHOOSE idx \in OLArcsBetween(g, from, to) :
        \A other \in OLArcsBetween(g, from, to) : other <= idx

(* C30: in every reachable state of OrthogonalList, get_edge(from, to)      *)
(* returns None exactly when no live arc from -> to exists, and otherwise   *)
(* the weight of the live arc from -> to that was added last.               *)
C30_GetEdgeNewestLiveArc ==
    repr = "OrthogonalList" =>
        \A from \in Indices, to \in Indices :
            OL_get_edge(ol, from, to)
                = IF OLArcsBetween(ol, from, to) = {} THEN None
                  ELSE Some(unwrap(ol.arcs[OLNewestArc(ol, from, to) + 1]).weight)

\* two live arcs from -> to, the older of weight 20 and the newer of weight
\* 10, behind a still newer arc to another head on from's out-chain
C30_Witness ==
    /\ repr = "OrthogonalList" /\ ~panicked
    /\ \E from \in OLRange, to \in OLRange :
          /\ Cardinality(OLArcsBetween(ol, from, to)) = 2
          /\ Len(OLOutChain(ol, from)) = 3
          /\ OLOutChain(ol, from)[1] \notin OLArcsBetween(ol, from, to)
          /\ unwrap(ol.arcs[OLOutChain(ol, from)[2] + 1]).weight = 10
          /\ unwrap(ol.arcs[OLOutChain(ol, from)[3] + 1]).weight = 20
          /\ OL_get_edge(ol, from, to) = Some(10)

-----------------------------------------------------------------------------
\* the step changes the struct and is an add_edge call that returned
OLAddEdgeReturned ==
    /\ ol' # ol
    /\ \E from \in Indices, to \in Indices, weight \in Weights :
          LET r == OL_add_edge(ol, from, to, weight) IN ~r.panic /\ ol' = r.g

AMLAddEdgeReturned ==
    /\ aml' # aml
    /\ \E i \in MultilistIndices, j \in MultilistIndices, weight \in MultilistWeights :
          LET r == AML_add_edge(aml, i, j, weight) IN ~r.panic /\ aml' = r.g

\* the arena is empty before the first call and the free-list head is empty
ArenaStartsEmptyNoFreeList ==
    /\ ol.free_arc_head = None
    /\ (ol.vertices = << >> /\ ol.edge_count = 0) => ol.arcs = << >>
    /\ (aml.vertices = << >> /\ aml.edge_count = 0) => aml.edges = << >>

\* a step lengthens the arena by one when it is an add_edge call that
\* returned and leaves its length alone otherwise; an emptied slot stays
\* empty, and a record that is live before and after the step is in the
\* same slot
ArenaOnlyGrows ==
    /\ Len(ol'.arcs) = Len(ol.arcs) + (IF OLAddEdgeReturned THEN 1 ELSE 0)
    /\ \A k \in 1 .. Len(ol.arcs) :
          /\ ol.arcs[k] = None => ol'.arcs[k] = None
          /\ ol'.arcs[k] # None =>
                /\ unwrap(ol'.arcs[k]).tail_vex = unwrap(ol.arcs[k]).tail_vex
                /\ unwrap(ol'.arcs[k]).head_vex = unwrap(ol.arcs[k]).head_vex
                /\ unwrap(ol'.arcs[k]).weight = unwrap(ol.arcs[k]).weight
    /\ Len(aml'.edges) = Len(aml.edges) + (IF AMLAddEdgeReturned THEN 1 ELSE 0)
    /\ \A k \in 1 .. Len(aml.edges) :
          /\ aml.edges[k] = None => aml'.edges[k] = None
          /\ aml'.edges[k] # None =>
                /\ unwrap(aml'.edges[k]).ivex = unwrap(aml.edges[k]).ivex
                /\ unwrap(aml'.edges[k]).jvex = unwrap(aml.edges[k]).jvex
                /\ unwrap(aml'.edges[k]).weight = unwrap(aml.edges[k]).weight

(* C31: in OrthogonalList and AdjacencyMultilist the arena starts empty,    *)
(* grows by exactly one slot with every add_edge call that returns and is   *)
(* changed in length by no other step, so its length is the number of such  *)
(* calls; the free-list head of OrthogonalList is always empty; an emptied  *)
(* slot is never filled again and a live record never changes its slot.     *)
C31_ArenaNeverShrinksNorReuses ==
    [] ArenaStartsEmptyNoFreeList /\ [][ArenaOnlyGrows]_vars

\* one vertex, so every arc is a loop on it and remove_edge takes the newest:
\* slot 0 was emptied before the live arc of slot 1 was added, in a new slot
C31_Witness ==
    /\ repr = "OrthogonalList" /\ ~panicked
    /\ Len(ol.vertices) = 1 /\ Len(ol.arcs) = 2
    /\ ol.arcs[1] = None /\ ol.arcs[2] # None
    /\ ol.free_arc_head = None

-----------------------------------------------------------------------------
\* every link of a live record of the arena, read through the fields named
\* in links, is None or a smaller index than the record's own
LinksPointDown(arena, links) ==
    \A idx \in Live(arena), link \in links :
        \A next \in Elems(unwrap(arena[idx + 1])[link]) : next < idx

(* C32: in every reachable state of OrthogonalList and AdjacencyMultilist   *)
(* the slot indices along every out-chain, in-chain and multilist chain     *)
(* strictly decrease from the head on, every link of a live record points   *)
(* to a smaller index than the record's own, and no chain is longer than    *)
(* the number of live records: chains have no cycle, so the walks of        *)
(* get_edge and remove_edge along them end after at most that many steps.   *)
C32_ChainsStrictlyDecrease ==
    /\ repr = "OrthogonalList" =>
          /\ LinksPointDown(ol.arcs, {"tail_link", "head_link"})
          /\ \A v \in OLRange :
                /\ Decreasing(OLOutChain(ol, v)) /\ Decreasing(OLInChain(ol, v))
                /\ Len(OLOutChain(ol, v)) <= Cardinality(Live(ol.arcs))
                /\ Len(OLInChain(ol, v)) <= Cardinality(Live(ol.arcs))
    /\ repr = "AdjacencyMultilist" =>
          /\ LinksPointDown(aml.edges, {"ilink", "jlink"})
          /\ \A v \in AMLRange :
                /\ Decreasing(AMLChain(aml, v))
                /\ Len(AMLChain(aml, v)) <= Cardinality(Live(aml.edges))

\* an out-chain and an in-chain of two arcs each, left by the removal of the
\* arc that was added between the two
C32_Witness ==
    /\ repr = "OrthogonalList" /\ ~panicked
    /\ Len(ol.arcs) = 3 /\ ol.arcs[2] = None /\ ol.arcs[3] # None
    /\ \E v \in OLRange, u \in OLRange :
          /\ OLOutChain(ol, v) = <<2, 0>>
          /\ OLInChain(ol, u) = <<2, 0>>
          /\ unwrap(ol.arcs[3]).tail_link = Some(0)
          /\ unwrap(ol.arcs[3]).head_link = Some(0)

-----------------------------------------------------------------------------
\* the neighbors an enumeration of v has handed out when its cursor is cur
ListedUpTo(g, v, cur) ==
    LET ts == Targets(g, v)
    IN  SubSeq(ts, 1, AL_position(g.adj[v + 1], cur))

(* C33: in every reachable state of AdjacencyList, for every vertex v and   *)
(* every cursor cur that first_neighbor / next_neighbor hand out for v,     *)
(* remove_edge(v, cur) takes cur's entry out of v's list and keeps the      *)
(* others, and the next_neighbor(v, cur) call that follows returns None;    *)
(* when cur was not the last entry the neighbors that followed it are       *)
(* still in the list, so the enumeration ends without listing them.         *)
C33_CursorLostOnRemoval ==
    repr = "AdjacencyList" =>
        \A v \in ALRange :
            \A cur \in Elems(Neighbors("AdjacencyList", al, v)) :
                LET r      == AL_remove_edge(al, v, cur)
                    listed == ListedUpTo(al, v, cur)
                    left   == Targets(r.g, v)
                IN  /\ ~r.panic
                    /\ left = Without(Targets(al, v), cur)
                    /\ AL_next_neighbor(r.g, v, cur) = None
                    /\ Elems(left) \ Elems(listed)
                          = Elems(Targets(al, v)) \ Elems(listed)
                    /\ AL_next_neighbor(al, v, cur) # None
                          => /\ unwrap(AL_next_neighbor(al, v, cur)) \in Elems(left)
                             /\ unwrap(AL_next_neighbor(al, v, cur)) \notin Elems(listed)

\* the cursor is the head of a list of two entries: after its removal the
\* second entry is still a neighbor, and next_neighbor returns None
C33_Witness ==
    /\ repr = "AdjacencyList" /\ ~panicked
    /\ \E v \in ALRange :
          LET ts  == Targets(al, v)
              cur == unwrap(AL_first_neighbor(al, v))
          IN  /\ Len(ts) = 2
              /\ AL_next_neighbor(al, v, cur) = Some(ts[2])
              /\ AL_next_neighbor(AL_remove_edge(al, v, cur).g, v, cur) = None
              /\ AL_first_neighbor(AL_remove_edge(al, v, cur).g, v) = Some(ts[2])

-----------------------------------------------------------------------------
\* breadth_first_search on the graph of the state, run to its end
Search(start, vertex_count) == breadth_first_search(repr, graph, start, vertex_count)

(* C34: for a graph of n vertices, breadth_first_search(start, vertex_count) *)
(* with start < vertex_count and vertex_count >= n returns without an       *)
(* out-of-range index into visited (a start outside the graph is visited    *)
(* alone).  With vertex_count < n the call aborts when start >=             *)
(* vertex_count, before anything is visited, and otherwise aborts exactly   *)
(* when a vertex with index >= vertex_count is reachable from start: such a *)
(* neighbor is never skipped and never visited.  A running call has a       *)
(* visited array of vertex_count entries.                                   *)
C34_VisitedIndexInRange ==
    /\ bfs.pc = "idle" =>
          \A start \in 0 .. graph.vertices, vertex_count \in 0 .. graph.vertices + 1 :
              LET s == Search(start, vertex_count)
              IN  /\ s.pc \in {"done", "panicked"}
                  /\ Len(s.visited) = vertex_count
                  /\ Elems(s.order) \subseteq 0 .. vertex_count - 1
                  /\ (start < vertex_count /\ vertex_count >= graph.vertices)
                        => /\ s.pc = "done"
                           /\ start >= graph.vertices => s.order = <<start>>
                  /\ start >= vertex_count
                        => s.pc = "panicked" /\ s.order = << >>
                  /\ (start < vertex_count /\ vertex_count < graph.vertices)
                        => (s.pc = "panicked"
                              <=> \E v \in Reachable(start) : v >= vertex_count)
    /\ bfs.pc # "idle" =>
          /\ Len(bfs.visited) = bfs.vertex_count
          /\ bfs.vertex_count = graph.vertices
          /\ bfs.pc = "panicked" <=> bfs.start >= bfs.vertex_count
          /\ Elems(bfs.neighbor) \subseteq 0 .. bfs.vertex_count - 1

\* three vertices in a path 0 -> 1 -> 2: a search from 0 with vertex_count 2
\* visits 0 and 1 and aborts at the neighbor 2 of 1
C34_Witness ==
    /\ bfs.pc = "idle" /\ graph.vertices = 3
    /\ HasEdge(0, 1) /\ HasEdge(1, 2) /\ ~HasEdge(0, 2)
    /\ Search(0, 2).pc = "panicked"
    /\ Search(0, 2).order = <<0, 1>>
    /\ Search(0, 3).pc = "done"

-----------------------------------------------------------------------------
\* the larger and the smaller of two indices
Max(a, b) == IF a >= b THEN a ELSE b

Min(a, b) == IF a >= b THEN b ELSE a

(* C35: for every square input M, equal to its transpose or not,            *)
(* from_matrix(M) does not abort, to_matrix of the result is a square       *)
(* matrix of the same size equal to its transpose, and its cell (i, j) is   *)
(* M[max(i,j)][min(i,j)]: the lower triangle of M is kept and the upper     *)
(* triangle is dropped.                                                     *)
C35_LowerTriangleKept ==
    (sm_input # None /\ IsSquare(unwrap(sm_input))) =>
        /\ ~panicked
        /\ sm # None =>
              LET M   == unwrap(sm_input)
                  out == SM_to_matrix(unwrap(sm))
              IN  /\ Len(out) = Len(M)
                  /\ IsSymmetric(out)
                  /\ \A i \in 1 .. Len(M), j \in 1 .. Len(M) :
                        out[i][j] = M[Max(i, j)][Min(i, j)]

\* a square input that differs from its transpose has been through
\* from_matrix: the result reads M[1][0] in both off-diagonal cells
C35_Witness ==
    /\ sm_input # None /\ sm # None /\ ~panicked
    /\ IsSquare(unwrap(sm_input)) /\ ~IsSymmetric(unwrap(sm_input))
    /\ unwrap(sm_input)[1][2] = 2 /\ unwrap(sm_input)[2][1] = 1
    /\ SM_to_matrix(unwrap(sm))[1][2] = 1
    /\ SM_to_matrix(unwrap(sm))[2][1] = 1
    /\ SM_to_matrix(unwrap(sm)) # unwrap(sm_input)

-----------------------------------------------------------------------------
\* the cells of the lower triangle of a matrix of size n, diagonal included
LowerTriangle(n) == {rc \in (0 .. n - 1) \X (0 .. n - 1) : rc[2] <= rc[1]}

(* C36: for a SymmetricMatrix of size n, to_index maps the cells (r, c)     *)
(* with c <= r < n one-to-one onto 0 .. n(n+1)/2 - 1, the indices of the    *)
(* stored elements, so no in-range get or set aborts; after set(r, c, v),   *)
(* get(r', c') returns v when {r', c'} = {r, c} and what it returned before *)
(* otherwise; every cell of new(n) reads 0.                                 *)
C36_IndexBijectionAndFrame ==
    (sm # None /\ ~panicked) =>
        LET m == unwrap(sm)
            n == m.size
        IN  /\ Len(m.elements) = (n * (n + 1)) \div 2
            /\ \A rc \in LowerTriangle(n) : ~SM_to_index(m, rc[1], rc[2]).panic
            /\ {SM_to_index(m, rc[1], rc[2]).value : rc \in LowerTriangle(n)}
                  = 0 .. (n * (n + 1)) \div 2 - 1
            /\ \A rc \in LowerTriangle(n), pq \in LowerTriangle(n) :
                  SM_to_index(m, rc[1], rc[2]) = SM_to_index(m, pq[1], pq[2]) => rc = pq
            /\ \A r \in SMRange, c \in SMRange :
                  /\ SM_get(SM_new(n), r, c) = Ok(0)
                  /\ \A v \in SymValues :
                        LET w == SM_set(m, r, c, v)
                        IN  /\ ~w.panic
                            /\ w.g.size = n
                            /\ \A p \in SMRange, q \in SMRange :
                                  SM_get(w.g, p, q)
                                      = IF {p, q} = {r, c} THEN Ok(v)
                                        ELSE SM_get(m, p, q)

\* a matrix of size 3 in which only the cell (2, 1) was written: every other
\* cell still reads the 0 of new, and writing (1, 1) now leaves (2, 1) alone
C36_Witness ==
    /\ sm # None /\ sm_input = None /\ ~panicked
    /\ unwrap(sm).size = 3
    /\ unwrap(sm).elements = <<0, 0, 0, 0, 2, 0>>
    /\ SM_to_index(unwrap(sm), 1, 2) = Ok(4)
    /\ SM_get(SM_set(unwrap(sm), 1, 1, 1).g, 2, 1) = Ok(2)
    /\ SM_get(SM_set(unwrap(sm), 1, 1, 1).g, 2, 0) = Ok(0)

-----------------------------------------------------------------------------
\* the elements of the UnionFind
UFRange == 0 .. Len(uf) - 1

\* the roots of u: the elements with a negative entry
UFRoots(u) == {x \in 0 .. Len(u) - 1 : u[x + 1] < 0}

\* Some(the root that following parent entries from x reaches), None when an
\* entry leads outside the vector or no root is reached within fuel steps
RECURSIVE UFClimb(_, _, _)
UFClimb(u, x, fuel) ==
    IF x < 0 \/ x >= Len(u) THEN None
    ELSE IF u[x + 1] < 0 THEN Some(x)
    ELSE IF fuel = 0 THEN None
    ELSE UFClimb(u, u[x + 1], fuel - 1)

UFRootOf(u, x) == UFClimb(u, x, Len(u))

\* the set of x in u: the elements that reach the same root
UFSetOf(u, x) == {y \in 0 .. Len(u) - 1 : UFRootOf(u, y) = UFRootOf(u, x)}

\* the sum of the recorded sizes of the roots among the first k elements
RECURSIVE UFSizeSum(_, _)
UFSizeSum(u, k) ==
    IF k = 0 THEN 0
    ELSE (IF u[k] < 0 THEN -u[k] ELSE 0) + UFSizeSum(u, k - 1)

(* C37: in a UnionFind made by new(n), after any sequence of find and union *)
(* calls, those that return Err included, every entry is negative or the    *)
(* index of an element, following parent entries from any element reaches   *)
(* a root without a cycle, the negated entry of every root is the number of *)
(* elements that reach it, and these sizes sum to n.                        *)
C37_ForestWithSizes ==
    repr = "UnionFind" =>
        /\ \A x \in UFRange : uf[x + 1] < 0 \/ uf[x + 1] \in UFRange
        /\ \A x \in UFRange : uf[x + 1] # x
        /\ \A x \in UFRange : UFRootOf(uf, x) # None
        /\ \A r \in UFRoots(uf) : -uf[r + 1] = Cardinality(UFSetOf(uf, r))
        /\ UFSizeSum(uf, Len(uf)) = Len(uf)

\* five elements in a set of four and a set of one; the set of four is a
\* tree with an element two steps away from its root
C37_Witness ==
    /\ repr = "UnionFind" /\ Len(uf) = 5
    /\ \E r \in UFRoots(uf), single \in UFRoots(uf) :
          /\ uf[r + 1] = -4 /\ uf[single + 1] = -1
          /\ \E x \in UFRange :
                /\ uf[x + 1] >= 0 /\ uf[uf[x + 1] + 1] >= 0
                /\ UFRootOf(uf, x) = Some(r)

-----------------------------------------------------------------------------
\* the recorded size of root r
UFSize(u, r) == -u[r + 1]

\* the call leaves every element in the set it was in, and every root a
\* root with the size it had
UFSetsKept(u, v) ==
    /\ Len(v) = Len(u)
    /\ \A z \in 0 .. Len(u) - 1 : UFRootOf(v, z) = UFRootOf(u, z)
    /\ \A r \in UFRoots(u) : v[r + 1] = u[r + 1]

(* C38: in every reachable state of a UnionFind and for in-range x and y,   *)
(* union(x, y) returns Ok and afterwards find(x) = find(y); the sets of x   *)
(* and y have become one set and every other element is in the set it was   *)
(* in; the root of the smaller set, and on equal sizes the root of x's set, *)
(* points at the other root, which records the sum of the two sizes; when   *)
(* x and y share a set already, every set, root and size is as before.      *)
(* find(x) returns the root of x's set, points x at it, and leaves every    *)
(* set, root and size as before.  With an index out of range find and union *)
(* return Err and leave every set, root and size as before.                 *)
C38_UnionMergesFindKeeps ==
    repr = "UnionFind" =>
        /\ \A x \in UFRange :
              LET f == UF_find(uf, x)
              IN  /\ ~f.err
                  /\ f.value = UFRootOf(uf, x)
                  /\ UFSetsKept(uf, f.g)
                  /\ x \notin UFRoots(uf) => f.g[x + 1] = unwrap(f.value)
        /\ \A x \in UFRange, y \in UFRange :
              LET r  == UF_union(uf, x, y)
                  rx == unwrap(UFRootOf(uf, x))
                  ry == unwrap(UFRootOf(uf, y))
              IN  /\ ~r.err
                  /\ UF_find(r.g, x).value = UF_find(r.g, y).value
                  /\ \A z \in UFRange :
                        UFSetOf(r.g, z)
                            = IF z \in UFSetOf(uf, x) \cup UFSetOf(uf, y)
                              THEN UFSetOf(uf, x) \cup UFSetOf(uf, y)
                              ELSE UFSetOf(uf, z)
                  /\ rx = ry => UFSetsKept(uf, r.g)
                  /\ rx # ry =>
                        LET top == IF UFSize(uf, rx) > UFSize(uf, ry) THEN rx ELSE ry
                            low == IF top = rx THEN ry ELSE rx
                        IN  /\ r.g[low + 1] = top
                            /\ UFSize(r.g, top) = UFSize(uf, rx) + UFSize(uf, ry)
                            /\ UFSize(uf, low) <= UFSize(uf, top)
                            /\ UFRoots(r.g) = UFRoots(uf) \ {low}
                            /\ \A other \in UFRoots(uf) \ {rx, ry} :
                                  r.g[other + 1] = uf[other + 1]
        /\ \A bad \in {-1, Len(uf)} :
              /\ UF_find(uf, bad).err /\ UF_find(uf, bad).g = uf
              /\ \A x \in -1 .. Len(uf) :
                    /\ UF_union(uf, bad, x).err /\ UF_union(uf, bad, x).g = uf
                    /\ UF_union(uf, x, bad).err
                    /\ UFSetsKept(uf, UF_union(uf, x, bad).g)

\* two sets of two elements each, and a fifth element: union(x, y) with x
\* the non-root of one and y the non-root of the other puts x's root under
\* y's root, and a union with an index out of range fails after compressing
C38_Witness ==
    /\ repr = "UnionFind" /\ Len(uf) = 5
    /\ \E x \in UFRange, y \in UFRange :
          LET rx == unwrap(UFRootOf(uf, x))
              ry == unwrap(UFRootOf(uf, y))
          IN  /\ rx # ry /\ rx # x /\ ry # y
              /\ UFSize(uf, rx) = 2 /\ UFSize(uf, ry) = 2
              /\ UF_union(uf, x, y).g[rx + 1] = ry
              /\ UF_union(uf, x, y).g[ry + 1] = -4
              /\ UF_union(UF_union(uf, x, y).g, x, 5).err
              /\ UF_union(UF_union(uf, x, y).g, x, 5).g[x + 1] = ry

-----------------------------------------------------------------------------
\* the brackets of s from character k on are closed by the matching bracket
\* in the right order, given the brackets in open are waiting to be closed,
\* and nothing stays open; a closing bracket with nothing open does not match
RECURSIVE Matched(_, _, _)
Matched(s, k, open) ==
    IF k > Len(s) THEN open = << >>
    ELSE IF s[k] \in {"(", "[", "{"} THEN Matched(s, k + 1, Append(open, s[k]))
    ELSE IF s[k] \in {")", "]", "}"}
    THEN /\ open # << >>
         /\ open[Len(open)] = (IF s[k] = ")" THEN "(" ELSE IF s[k] = "]" THEN "[" ELSE "{")
         /\ Matched(s, k + 1, SubSeq(open, 1, Len(open) - 1))
    ELSE Matched(s, k + 1, open)

Balanced(s) == Matched(s, 1, << >>)

(* C39: for every input string a call of is_valid_parentheses that has left *)
(* its loop has returned a boolean and has not aborted: true exactly when   *)
(* every bracket is closed by the matching bracket in the right order and   *)
(* nothing stays open, false otherwise, also for a closing bracket met with *)
(* an empty stack; main, on "}", prints Failure!.  (The code pops with      *)
(* expect(), which aborts on the empty stack.)                              *)
C39_ReturnsBooleanNeverAborts ==
    paren.pc \notin {"idle", "loop"} =>
        /\ paren.pc = "returned"
        /\ paren.result = Balanced(paren.input)
        /\ paren.input = MainInput => main_prints(paren.input) = Some("Failure!")

=============================================================================
